---- MODULE Spec2Model ----
(***************************************************************************)
(* Model of the marketplace fee / profit comparison engine of listapp:     *)
(*   api/src/services/fee_service.py  (FeeService, MarketplacePlatform)    *)
(*   api/src/tools/tools.py           (FeeCalculationTool)                 *)
(* and of the analysis tools that rank platforms and summarise prices:     *)
(*   api/src/agents/recommendation_agent.py, api/src/agents/               *)
(*   pricing_agent.py, api/src/agents/marketplace_agent.py,                *)
(*   api/src/services/google_shopping_service.py, api/src/services/        *)
(*   marketplace_service.py, api/src/models/product.py                     *)
(* Spec is one call on a fresh FeeService, SpecAnalysis one call of an     *)
(* analysis tool, SpecCalls the interleaved calls of several callers of    *)
(* one FeeService, SpecPricing one call of a pricing or scoring tool,      *)
(* SpecTasks the background analysis of api/src/routers/analysis.py        *)
(* interleaved with the readers of its result.                             *)
(*                                                                         *)
(* Numbers.  The source computes with Python floats.  The model computes   *)
(* the same expressions in exact decimal fixed point:                      *)
(*   - a caller's monetary input is an integer number of cents;            *)
(*   - a rate of fee_structure (0.1295) is an integer number of            *)
(*     ten-thousandths (1295), a fixed amount of fee_structure (0.30) an   *)
(*     integer number of cents (30);                                       *)
(*   - every monetary value the service computes or returns is an integer  *)
(*     number of micro-dollars (1 cent = Scale micro-dollars), so that     *)
(*     cents * rate is exact.                                              *)
(* profit_margin_percent is kept as the exact ratio [num, den], standing   *)
(* for (num / den) * 100.                                                  *)
(***************************************************************************)
EXTENDS Integers, Sequences, FiniteSets, TLC

VARIABLES fee_structure, op, args, pc, result, cache

vars == <<fee_structure, op, args, pc, result, cache>>

\* the Redis entries of one analysis id: no status and no result stored
EmptyCache == [status |-> [is_none |-> TRUE], result |-> [is_none |-> TRUE]]

(***************************************************************************)
(* Units and bounds                                                        *)
(***************************************************************************)
\* micro-dollars per cent = denominator of the four-decimal rate literals
Scale == 10000

\* grid of sale prices: 0, PriceStep, ..., MaxPriceSteps * PriceStep cents
MaxPriceSteps == 3
PriceStep == 500
\* longest explicit platform list handed to compare_platforms
MaxPlatforms == 2

NONE == "<absent>"

Micro(cents) == cents * Scale

\* amount (cents) * rate (ten-thousandths), in micro-dollars
Times(cents, rate) == cents * rate

(***************************************************************************)
(* MarketplacePlatform and the fee table                                   *)
(***************************************************************************)
\* mutant: the enum as the seven-platform reading has it, etsy left out
MarketplacePlatformSeven ==
    <<"ebay", "amazon", "facebook_marketplace",
      "mercari", "poshmark", "depop", "vinted">>

MarketplacePlatform ==
    <<"ebay", "amazon", "etsy", "facebook_marketplace",
      "mercari", "poshmark", "depop", "vinted">>

Range(s) == {s[i] : i \in 1..Len(s)}

PlatformMembers == Range(MarketplacePlatform)

\* an identifier that is no member of the enum
UnknownPlatform == "craigslist"

PlatformIds == PlatformMembers \cup {UnknownPlatform}

\* FeeService.__init__: rates in ten-thousandths, amounts in cents
InitialFeeStructure ==
    [ebay |->
        [listing_fee |-> 0,
         final_value_fee |-> 1295,
         payment_processing_fee |-> 295,
         international_fee |-> 150,
         store_subscription |->
            [basic |-> 795, premium |-> 2795,
             anchor |-> 34995, enterprise |-> 299995],
         insertion_fee_after_limit |-> 35,
         category_exceptions |-> [motors |-> 1000, real_estate |-> 3500]],
     amazon |->
        [referral_fee |-> 1500,
         fulfillment_fee |-> 300,
         storage_fee |-> 75,
         long_term_storage_fee |-> 690,
         category_fees |->
            [electronics |-> 800, clothing |-> 1700, books |-> 1500,
             home_garden |-> 1500, toys_games |-> 1500]],
     etsy |->
        [listing_fee |-> 20,
         transaction_fee |-> 650,
         payment_processing_fee |-> 300,
         payment_processing_fixed |-> 25,
         advertising_fee |-> 1500,
         currency_conversion_fee |-> 250],
     facebook_marketplace |->
        [selling_fee |-> 500,
         payment_processing_fee |-> 290,
         payment_processing_fixed |-> 30,
         local_pickup_fee |-> 0],
     mercari |->
        [selling_fee |-> 1000,
         payment_processing_fee |-> 290,
         payment_processing_fixed |-> 30,
         authentication_fee |-> 500],
     poshmark |->
        [commission_under_15 |-> 295,
         commission_over_15 |-> 2000,
         expedited_shipping |-> 797],
     depop |->
        [selling_fee |-> 1000,
         paypal_fee |-> 290,
         paypal_fixed |-> 30,
         depop_payments_fee |-> 290],
     vinted |->
        [selling_fee |-> 0,
         buyer_protection_fee |-> 500,
         payment_processing_fee |-> 300]]

(***************************************************************************)
(* Fee line items: fee_breakdown is an insertion-ordered dict              *)
(***************************************************************************)
Line(name, v) == [name |-> name, numeric |-> TRUE, value |-> v, text |-> ""]

Note(name, s) == [name |-> name, numeric |-> FALSE, value |-> 0, text |-> s]

\* kwargs is a dict: a function whose domain is the set of keys passed
Get(kwargs, key, default) ==
    IF key \in DOMAIN kwargs THEN kwargs[key] ELSE default

\* the (total_fees, breakdown) tuple a _calculate_*_fees method returns
Fees(total, breakdown) == [total_fees |-> total, breakdown |-> breakdown]

(***************************************************************************)
(* The per-platform fee methods.  sale_price and shipping_cost in cents,   *)
(* fees = fee_structure[platform]; the result is in micro-dollars.         *)
(***************************************************************************)
\* mutant: the store subscription charged to the sale
_calculate_ebay_fees_subscription_charged(sale_price, shipping_cost, fees, kwargs) ==
    LET total_transaction == sale_price + shipping_cost
        final_value_fee == Times(total_transaction, fees.final_value_fee)
        payment_fee == Times(total_transaction, fees.payment_processing_fee)
        store_type == Get(kwargs, "store_subscription", "")
        has_store == store_type # ""
                     /\ store_type \in DOMAIN fees.store_subscription
        b1 == <<Line("final_value_fee", final_value_fee),
                Line("payment_processing_fee", payment_fee)>>
    IN  IF has_store
        THEN Fees(final_value_fee + payment_fee
                    + Micro(fees.store_subscription[store_type]),
                  Append(b1, Line("store_subscription",
                                  Micro(fees.store_subscription[store_type]))))
        ELSE Fees(final_value_fee + payment_fee, b1)

_calculate_ebay_fees(sale_price, shipping_cost, fees, kwargs) ==
    LET total_transaction == sale_price + shipping_cost
        final_value_fee == Times(total_transaction, fees.final_value_fee)
        payment_fee == Times(total_transaction, fees.payment_processing_fee)
        intl == Get(kwargs, "international", FALSE)
        intl_fee == Times(total_transaction, fees.international_fee)
        store_type == Get(kwargs, "store_subscription", "")
        has_store == store_type # ""
                     /\ store_type \in DOMAIN fees.store_subscription
        b1 == <<Line("final_value_fee", final_value_fee),
                Line("payment_processing_fee", payment_fee)>>
        b2 == IF intl THEN Append(b1, Line("international_fee", intl_fee))
                      ELSE b1
        b3 == IF has_store
              THEN Append(b2, Line("store_subscription",
                                   Micro(fees.store_subscription[store_type])))
              ELSE b2
    IN  Fees(final_value_fee + payment_fee + (IF intl THEN intl_fee ELSE 0), b3)

_calculate_amazon_fees(sale_price, shipping_cost, fees, kwargs) ==
    LET category == Get(kwargs, "category", "default")
        referral_rate == IF category \in DOMAIN fees.category_fees
                         THEN fees.category_fees[category]
                         ELSE fees.referral_fee
        referral_fee == Times(sale_price, referral_rate)
        fba == Get(kwargs, "fba", FALSE)
        storage_months == Get(kwargs, "storage_months", 1)
        cubic_feet == Get(kwargs, "cubic_feet", 1)
        storage_fee == Micro(fees.storage_fee) * cubic_feet * storage_months
        b1 == <<Line("referral_fee", referral_fee)>>
    IN  IF fba
        THEN Fees(referral_fee + Micro(fees.fulfillment_fee) + storage_fee,
                  b1 \o <<Line("fulfillment_fee", Micro(fees.fulfillment_fee)),
                          Line("storage_fee", storage_fee)>>)
        ELSE Fees(referral_fee, b1)

_calculate_etsy_fees(sale_price, shipping_cost, fees, kwargs) ==
    LET transaction_fee == Times(sale_price, fees.transaction_fee)
        total_transaction == sale_price + shipping_cost
        payment_fee == Times(total_transaction, fees.payment_processing_fee)
                       + Micro(fees.payment_processing_fixed)
    IN  Fees(Micro(fees.listing_fee) + transaction_fee + payment_fee,
             <<Line("listing_fee", Micro(fees.listing_fee)),
               Line("transaction_fee", transaction_fee),
               Line("payment_processing_fee", payment_fee)>>)

_calculate_facebook_fees(sale_price, shipping_cost, fees, kwargs) ==
    LET selling_fee == Times(sale_price, fees.selling_fee)
        total_transaction == sale_price + shipping_cost
        payment_fee == Times(total_transaction, fees.payment_processing_fee)
                       + Micro(fees.payment_processing_fixed)
    IN  IF Get(kwargs, "shipped", TRUE)
        THEN Fees(selling_fee + payment_fee,
                  <<Line("selling_fee", selling_fee),
                    Line("payment_processing_fee", payment_fee)>>)
        ELSE Fees(0, <<>>)

_calculate_mercari_fees(sale_price, shipping_cost, fees, kwargs) ==
    LET selling_fee == Times(sale_price, fees.selling_fee)
        total_transaction == sale_price + shipping_cost
        payment_fee == Times(total_transaction, fees.payment_processing_fee)
                       + Micro(fees.payment_processing_fixed)
        b1 == <<Line("selling_fee", selling_fee),
                Line("payment_processing_fee", payment_fee)>>
    IN  IF Get(kwargs, "luxury_authentication", FALSE)
        THEN Fees(selling_fee + payment_fee + Micro(fees.authentication_fee),
                  Append(b1, Line("authentication_fee",
                                  Micro(fees.authentication_fee))))
        ELSE Fees(selling_fee + payment_fee, b1)

\* mutant: the tier test written <= 15.0
_calculate_poshmark_fees_inclusive(sale_price, shipping_cost, fees, kwargs) ==
    LET commission == IF sale_price <= 1500
                      THEN Micro(fees.commission_under_15)
                      ELSE Times(sale_price, fees.commission_over_15)
    IN  [total_fees |-> commission,
         breakdown |-> <<Line("commission", commission)>>]

\* mutant: the commission recorded in the breakdown and never added to
\* total_fees
_calculate_poshmark_fees_untotalled(sale_price, shipping_cost, fees, kwargs) ==
    LET commission == IF sale_price < 1500
                      THEN Micro(fees.commission_under_15)
                      ELSE Times(sale_price, fees.commission_over_15)
    IN  [total_fees |-> 0,
         breakdown |-> <<Line("commission", commission)>>]

\* the literal 15.0 of the tier test, in cents
PoshmarkThreshold == 1500

_calculate_poshmark_fees(sale_price, shipping_cost, fees, kwargs) ==
    LET commission == IF sale_price < PoshmarkThreshold
                      THEN Micro(fees.commission_under_15)
                      ELSE Times(sale_price, fees.commission_over_15)
    IN  Fees(commission, <<Line("commission", commission)>>)

_calculate_depop_fees(sale_price, shipping_cost, fees, kwargs) ==
    LET selling_fee == Times(sale_price, fees.selling_fee)
        total_transaction == sale_price + shipping_cost
        payment_method == Get(kwargs, "payment_method", "depop_payments")
        payment_fee ==
            IF payment_method = "paypal"
            THEN Times(total_transaction, fees.paypal_fee)
                 + Micro(fees.paypal_fixed)
            ELSE Times(total_transaction, fees.depop_payments_fee)
                 + Micro(fees.paypal_fixed)
    IN  Fees(selling_fee + payment_fee,
             <<Line("selling_fee", selling_fee),
               Line("payment_processing_fee", payment_fee)>>)

\* mutant: the buyer protection rate charged to the seller
_calculate_vinted_fees_buyer_rate(sale_price, shipping_cost, fees, kwargs) ==
    LET seller_fee == Times(sale_price, fees.buyer_protection_fee)
    IN  [total_fees |-> seller_fee,
         breakdown |-> <<Line("seller_fee", seller_fee),
                         Note("note", "Fees paid by buyer")>>]

_calculate_vinted_fees(sale_price, shipping_cost, fees, kwargs) ==
    Fees(0, <<Line("seller_fee", 0), Note("note", "Fees paid by buyer")>>)

(***************************************************************************)
(* What a call produces: a returned value or a raised exception            *)
(***************************************************************************)
Return(v) == [status |-> "returned", exception |-> "", value |-> v]

Raise(exc) == [status |-> "raised", exception |-> exc, value |-> <<>>]

NoResult == [status |-> "pending", exception |-> "", value |-> <<>>]

\* the dispatch chain of calculate_fees
PlatformFees(platform, sale_price, shipping_cost, fees, kwargs) ==
    CASE platform = "ebay" ->
            _calculate_ebay_fees(sale_price, shipping_cost, fees, kwargs)
      [] platform = "amazon" ->
            _calculate_amazon_fees(sale_price, shipping_cost, fees, kwargs)
      [] platform = "etsy" ->
            _calculate_etsy_fees(sale_price, shipping_cost, fees, kwargs)
      [] platform = "facebook_marketplace" ->
            _calculate_facebook_fees(sale_price, shipping_cost, fees, kwargs)
      [] platform = "mercari" ->
            _calculate_mercari_fees(sale_price, shipping_cost, fees, kwargs)
      [] platform = "poshmark" ->
            _calculate_poshmark_fees(sale_price, shipping_cost, fees, kwargs)
      [] platform = "depop" ->
            _calculate_depop_fees(sale_price, shipping_cost, fees, kwargs)
      [] platform = "vinted" ->
            _calculate_vinted_fees(sale_price, shipping_cost, fees, kwargs)
      [] OTHER -> Fees(0, <<>>)

\* mutant: the division left unguarded
ProfitMarginUnguarded(profit, gross_revenue) ==
    [num |-> profit, den |-> gross_revenue]

\* profit_margin = (profit / gross_revenue) * 100 if gross_revenue > 0 else 0
ProfitMargin(profit, gross_revenue) ==
    IF gross_revenue > 0 THEN [num |-> profit, den |-> gross_revenue]
                         ELSE [num |-> 0, den |-> 1]

\* mutant: a loss clamped to zero
ProfitClamped(net_revenue, item_cost) ==
    IF net_revenue - item_cost < 0 THEN 0 ELSE net_revenue - item_cost

\* profit = net_revenue - item_cost
Profit(net_revenue, item_cost) == net_revenue - item_cost

\* the body of calculate_fees behind the platform check
FeeResult(platform, fees, sale_price, shipping_cost, item_cost, kwargs) ==
    LET f == PlatformFees(platform, sale_price, shipping_cost, fees, kwargs)
        gross_revenue == Micro(sale_price + shipping_cost)
        net_revenue == gross_revenue - f.total_fees
        profit == Profit(net_revenue, Micro(item_cost))
    IN  [platform |-> platform,
         sale_price |-> Micro(sale_price),
         shipping_cost |-> Micro(shipping_cost),
         gross_revenue |-> gross_revenue,
         total_fees |-> f.total_fees,
         net_revenue |-> net_revenue,
         item_cost |-> Micro(item_cost),
         profit |-> profit,
         profit_margin_percent |-> ProfitMargin(profit, gross_revenue),
         fee_breakdown |-> f.breakdown]

\* mutant: the platform check replaced by a lookup with an empty default
calculate_fees_unchecked(self, platform, sale_price, shipping_cost, item_cost, kwargs) ==
    [status |-> "returned", exception |-> "",
     value |-> FeeResult(platform,
                         IF platform \in DOMAIN self THEN self[platform]
                                                     ELSE <<>>,
                         sale_price, shipping_cost, item_cost, kwargs)]

\* FeeService.calculate_fees; self is the service's fee_structure
calculate_fees(self, platform, sale_price, shipping_cost, item_cost, kwargs) ==
    IF platform \notin DOMAIN self
    THEN Raise("ValueError")
    ELSE Return(FeeResult(platform, self[platform], sale_price,
                          shipping_cost, item_cost, kwargs))

(***************************************************************************)
(* compare_platforms                                                       *)
(***************************************************************************)
\* list.sort(key=profit, reverse=True): stable, so an entry goes behind
\* every entry already placed whose profit is at least its own
RECURSIVE InsertByProfit(_, _)
InsertByProfit(sorted, x) ==
    IF sorted = <<>> THEN <<x>>
    ELSE IF Head(sorted).profit >= x.profit
         THEN <<Head(sorted)>> \o InsertByProfit(Tail(sorted), x)
         ELSE <<x>> \o sorted

\* mutant: the sort left out
Unsorted(comparisons) == comparisons

RECURSIVE SortByProfit(_)
SortByProfit(comparisons) ==
    IF comparisons = <<>> THEN <<>>
    ELSE InsertByProfit(SortByProfit(SubSeq(comparisons, 1,
                                            Len(comparisons) - 1)),
                        comparisons[Len(comparisons)])

\* The item_cost a caller of compare_platforms or get_recommended_platform
\* passes is a Python value: a number (of cents), or None.
PyFloat(v) == [is_none |-> FALSE, value |-> v]

PyNone == [is_none |-> TRUE, value |-> 0]

\* the call in the try block: behind the platform check, calculate_fees
\* raises TypeError at net_revenue - item_cost when item_cost is None
TryCalculateFees(self, platform, sale_price, shipping_cost, item_cost) ==
    IF platform \in DOMAIN self /\ item_cost.is_none
    THEN Raise("TypeError")
    ELSE calculate_fees(self, platform, sale_price, shipping_cost,
                        item_cost.value, <<>>)

\* mutant: the first failing platform ends the batch
RECURSIVE CollectAborting(_, _, _, _, _)
CollectAborting(self, platforms, sale_price, shipping_cost, item_cost) ==
    IF platforms = <<>> THEN <<>>
    ELSE LET r == TryCalculateFees(self, Head(platforms), sale_price,
                                   shipping_cost, item_cost)
         IN  IF r.status = "returned"
             THEN <<r.value>> \o CollectAborting(self, Tail(platforms),
                                     sale_price, shipping_cost, item_cost)
             ELSE <<>>

\* the for loop: a platform whose calculate_fees raises any exception is
\* logged and skipped
RECURSIVE Collect(_, _, _, _, _)
Collect(self, platforms, sale_price, shipping_cost, item_cost) ==
    IF platforms = <<>> THEN <<>>
    ELSE LET r == TryCalculateFees(self, Head(platforms), sale_price,
                                   shipping_cost, item_cost)
             rest == Collect(self, Tail(platforms), sale_price,
                             shipping_cost, item_cost)
         IN  IF r.status = "returned" THEN <<r.value>> \o rest ELSE rest

\* platforms: [is_none, list], is_none standing for the default None
compare_platforms(self, sale_price, item_cost, shipping_cost, platforms) ==
    LET list == IF platforms.is_none THEN MarketplacePlatform
                                     ELSE platforms.list
    IN  SortByProfit(Collect(self, list, sale_price, shipping_cost, item_cost))

\* mutant: the difference taken the other way round
ProfitDifferenceReversed(comparisons) ==
    IF Len(comparisons) > 1
    THEN comparisons[2].profit - comparisons[1].profit
    ELSE 0

\* profit_difference: best_platform's profit less second_best's
ProfitDifference(comparisons) ==
    IF Len(comparisons) > 1
    THEN comparisons[1].profit - comparisons[2].profit
    ELSE 0

\* the recommendation get_recommended_platform builds from the comparisons
Recommendation(comparisons) ==
    LET best_platform == comparisons[1]
        profit_difference == ProfitDifference(comparisons)
    IN  IF comparisons = <<>>
        THEN [recommended_platform |-> NONE,
              reason |-> "No platforms available for comparison"]
        ELSE [recommended_platform |-> best_platform.platform,
              expected_profit |-> best_platform.profit,
              profit_margin |-> best_platform.profit_margin_percent,
              total_fees |-> best_platform.total_fees,
              net_revenue |-> best_platform.net_revenue,
              profit_advantage |-> profit_difference,
              fee_breakdown |-> best_platform.fee_breakdown,
              all_comparisons |-> comparisons]

\* FeeService.get_recommended_platform (category is accepted and not read)
get_recommended_platform(self, sale_price, item_cost, category, shipping_cost) ==
    Recommendation(compare_platforms(self, sale_price, item_cost,
                       shipping_cost, [is_none |-> TRUE, list |-> <<>>]))

(***************************************************************************)
(* FeeCalculationTool._run                                                 *)
(***************************************************************************)
\* the platform strings a caller of the tool passes, with str.lower() of each
ToolPlatformStrings ==
    PlatformIds \cup {"EBAY", "Poshmark", "Vinted", ""}

Lower(s) ==
    CASE s = "EBAY" -> "ebay"
      [] s = "Poshmark" -> "poshmark"
      [] s = "Vinted" -> "vinted"
      [] OTHER -> s

\* MarketplacePlatform(value) raises ValueError for a value of no member;
\* every exception becomes the {"error": ...} document
FeeCalculationTool_run(self, platform, sale_price, shipping_cost, item_cost) ==
    IF Lower(platform) \notin PlatformMembers
    THEN [error |-> TRUE, result |-> <<>>]
    ELSE LET r == calculate_fees(self, Lower(platform), sale_price,
                                 shipping_cost, item_cost, <<>>)
         IN  IF r.status = "raised"
             THEN [error |-> TRUE, result |-> <<>>]
             ELSE [error |-> FALSE, result |-> r.value]

(***************************************************************************)
(* Inputs                                                                  *)
(***************************************************************************)
\* sale prices, in cents: the grid, the prices of the documented scenarios,
\* the last cent under the Poshmark tier, and a negative price
SalePrices ==
    {k * PriceStep : k \in 0..MaxPriceSteps}
        \cup {1499, 2000, 5000, 10000} \cup {-500}

ShippingCosts == {0, 500, -500}

ItemCosts == {0, 1000, 2000, -500}

\* one keyword argument: absent, or present with one of vals
Opt(key, vals) == {<<>>} \cup {key :> v : v \in vals}

\* the keyword arguments calculate_fees reads
Kwargs ==
    {a @@ b @@ c @@ d @@ e @@ f @@ g @@ h :
        a \in Opt("international", {TRUE}),
        b \in Opt("store_subscription", {"basic"}),
        c \in Opt("fba", {TRUE}),
        d \in Opt("category", {"motors", "electronics"}),
        e \in Opt("luxury_authentication", {TRUE}),
        f \in Opt("payment_method", {"paypal"}),
        g \in Opt("shipped", {FALSE}),
        h \in {<<>>, ("cubic_feet" :> 2) @@ ("storage_months" :> 3)}}

RECURSIVE SeqsUpTo(_, _)
SeqsUpTo(S, n) ==
    IF n = 0 THEN {<<>>}
    ELSE LET shorter == SeqsUpTo(S, n - 1)
         IN  shorter \cup {Append(q, x) : q \in shorter, x \in S}

PlatformLists ==
    {[is_none |-> TRUE, list |-> <<>>]}
        \cup {[is_none |-> FALSE, list |-> q] :
                q \in SeqsUpTo(PlatformIds, MaxPlatforms)}

DefaultPlatforms == [is_none |-> TRUE, list |-> <<>>]

Money == [sale_price : SalePrices, shipping_cost : ShippingCosts,
          item_cost : ItemCosts, item_cost_none : {FALSE}]

\* item_cost=None, handed to compare_platforms and get_recommended_platform
MoneyNone == [sale_price : SalePrices, shipping_cost : ShippingCosts,
              item_cost : {0}, item_cost_none : {TRUE}]

Args(platform, m, kwargs, platforms) ==
    [platform |-> platform, sale_price |-> m.sale_price,
     shipping_cost |-> m.shipping_cost, item_cost |-> m.item_cost,
     item_cost_none |-> m.item_cost_none,
     kwargs |-> kwargs, platforms |-> platforms]

\* the item_cost argument as the Python value it is
ItemCostArg(a) == [is_none |-> a.item_cost_none, value |-> a.item_cost]

CallsOf(o) ==
    CASE o = "calculate_fees" ->
            {Args(p, m, k, DefaultPlatforms) :
                p \in PlatformIds, m \in Money, k \in Kwargs}
      [] o = "compare_platforms" ->
            {Args("", m, <<>>, l) :
                m \in Money \cup MoneyNone, l \in PlatformLists}
      [] o = "get_recommended_platform" ->
            {Args("", m, <<>>, DefaultPlatforms) : m \in Money \cup MoneyNone}
      [] o = "fee_calculation_tool" ->
            {Args(p, m, <<>>, DefaultPlatforms) :
                p \in ToolPlatformStrings, m \in Money}

Ops == {"calculate_fees", "compare_platforms", "get_recommended_platform",
        "fee_calculation_tool"}

(***************************************************************************)
(* The state machine: one call on a freshly constructed service            *)
(***************************************************************************)
Init ==
    /\ fee_structure = InitialFeeStructure
    /\ op \in Ops
    /\ args \in CallsOf(op)
    /\ pc = "call"
    /\ result = NoResult
    /\ cache = EmptyCache

CalculateFees ==
    /\ pc = "call" /\ op = "calculate_fees"
    /\ result' = calculate_fees(fee_structure, args.platform, args.sale_price,
                                args.shipping_cost, args.item_cost,
                                args.kwargs)
    /\ pc' = "done"
    /\ UNCHANGED <<fee_structure, op, args, cache>>

ComparePlatforms ==
    /\ pc = "call" /\ op = "compare_platforms"
    /\ result' = Return(compare_platforms(fee_structure, args.sale_price,
                            ItemCostArg(args), args.shipping_cost,
                            args.platforms))
    /\ pc' = "done"
    /\ UNCHANGED <<fee_structure, op, args, cache>>

GetRecommendedPlatform ==
    /\ pc = "call" /\ op = "get_recommended_platform"
    /\ result' = Return(get_recommended_platform(fee_structure,
                            args.sale_price, ItemCostArg(args), "",
                            args.shipping_cost))
    /\ pc' = "done"
    /\ UNCHANGED <<fee_structure, op, args, cache>>

FeeCalculationToolRun ==
    /\ pc = "call" /\ op = "fee_calculation_tool"
    /\ result' = Return(FeeCalculationTool_run(fee_structure, args.platform,
                            args.sale_price, args.shipping_cost,
                            args.item_cost))
    /\ pc' = "done"
    /\ UNCHANGED <<fee_structure, op, args, cache>>

Next ==
    \/ CalculateFees
    \/ ComparePlatforms
    \/ GetRecommendedPlatform
    \/ FeeCalculationToolRun

Spec == Init /\ [][Next]_vars

(***************************************************************************)
(* Properties                                                              *)
(***************************************************************************)
Done(o) == pc = "done" /\ op = o

NonNegative ==
    args.sale_price >= 0 /\ args.shipping_cost >= 0 /\ args.item_cost >= 0

RECURSIVE SumNumeric(_)
SumNumeric(breakdown) ==
    IF breakdown = <<>> THEN 0
    ELSE (IF Head(breakdown).numeric THEN Head(breakdown).value ELSE 0)
         + SumNumeric(Tail(breakdown))

LineNames(breakdown) == {breakdown[i].name : i \in 1..Len(breakdown)}

HasLine(breakdown, name) == name \in LineNames(breakdown)

LineValue(breakdown, name) ==
    breakdown[CHOOSE i \in 1..Len(breakdown) :
                  breakdown[i].name = name].value

NotStoreSubscription(line) == line.name # "store_subscription"

\* C1: for every platform of MarketplacePlatform and non-negative sale
\* price, shipping cost and item cost, calculate_fees returns (it does not
\* raise) and profit = sale_price + shipping_cost - total_fees - item_cost,
\* a loss being returned as a negative profit.
C1_ProfitIdentity ==
    (Done("calculate_fees") /\ args.platform \in PlatformMembers
        /\ NonNegative)
    => /\ result.status = "returned"
       /\ result.value.profit =
            Micro(args.sale_price) + Micro(args.shipping_cost)
            - result.value.total_fees - Micro(args.item_cost)

\* a returned loss: fees plus item cost exceed the revenue
C1_Witness ==
    /\ Done("calculate_fees") /\ NonNegative
    /\ result.status = "returned"
    /\ result.value.total_fees + result.value.item_cost
         > result.value.gross_revenue
    /\ result.value.profit < 0

\* C2 as stated: for every platform and every combination of options,
\* total_fees equals the sum of all numeric entries of fee_breakdown.
C2_Original ==
    (Done("calculate_fees") /\ result.status = "returned")
    => result.value.total_fees = SumNumeric(result.value.fee_breakdown)

\* C2 as amended: for every platform and every combination of options,
\* total_fees equals the sum of the numeric entries of fee_breakdown other
\* than eBay's informational store_subscription entry.
C2_TotalIsSumOfCharged ==
    (Done("calculate_fees") /\ result.status = "returned")
    => result.value.total_fees =
         SumNumeric(SelectSeq(result.value.fee_breakdown,
                              NotStoreSubscription))

\* an eBay result carrying the store_subscription entry next to charged fees
C2_Witness ==
    /\ Done("calculate_fees") /\ result.status = "returned"
    /\ args.platform = "ebay"
    /\ HasLine(result.value.fee_breakdown, "store_subscription")
    /\ HasLine(result.value.fee_breakdown, "international_fee")
    /\ result.value.total_fees > 0

\* C3: eBay with no options charges final_value_fee = (sale_price +
\* shipping_cost) * 13.25% and payment fee = (sale_price + shipping_cost)
\* * 2.9% + $0.30; for sale_price 100, shipping 0, item cost 20 that is
\* 13.25, 3.20, total 16.45, profit 63.55.
C3_EbayStandardFees ==
    (Done("calculate_fees") /\ args.platform = "ebay"
        /\ args.kwargs = <<>> /\ NonNegative)
    => /\ result.status = "returned"
       /\ LineValue(result.value.fee_breakdown, "final_value_fee")
            = Times(args.sale_price + args.shipping_cost, 1325)
       /\ LineValue(result.value.fee_breakdown, "payment_processing_fee")
            = Times(args.sale_price + args.shipping_cost, 290) + Micro(30)
       /\ (args.sale_price = 10000 /\ args.shipping_cost = 0
              /\ args.item_cost = 2000)
          => /\ result.value.total_fees = 16450000
             /\ result.value.profit = 63550000

\* C4: with sale_price = 0 and shipping_cost = 0, calculate_fees returns,
\* for every platform, every fee line item 0, total_fees 0 and
\* profit = -item_cost.
C4_ZeroPriceZeroFees ==
    (Done("calculate_fees") /\ args.platform \in PlatformMembers
        /\ args.sale_price = 0 /\ args.shipping_cost = 0
        /\ args.item_cost >= 0)
    => /\ result.status = "returned"
       /\ \A i \in 1..Len(result.value.fee_breakdown) :
            result.value.fee_breakdown[i].numeric
            => result.value.fee_breakdown[i].value = 0
       /\ result.value.total_fees = 0
       /\ result.value.profit = 0 - Micro(args.item_cost)

\* C5: the Poshmark commission is the flat $2.95 for a sale price below
\* $15 and 20% of the sale price from $15 on (10 -> 2.95, 15 -> 3.00,
\* 20 -> 4.00); it is the only fee line item, it is the total, and the
\* shipping cost does not enter it.
C5_PoshmarkTiers ==
    (Done("calculate_fees") /\ args.platform = "poshmark")
    => LET commission == IF args.sale_price < 1500
                         THEN 2950000
                         ELSE args.sale_price * 2000
       IN  /\ result.status = "returned"
           /\ result.value.fee_breakdown = <<Line("commission", commission)>>
           /\ result.value.total_fees = commission
           /\ args.sale_price = 1000 => commission = 2950000
           /\ args.sale_price = 1500 => commission = 3000000
           /\ args.sale_price = 2000 => commission = 4000000

\* a Poshmark sale at exactly $15 with shipping charged
C5_Witness ==
    /\ Done("calculate_fees") /\ args.platform = "poshmark"
    /\ args.sale_price = 1500 /\ args.shipping_cost > 0
    /\ result.value.total_fees = 3000000

\* C6: for Vinted the seller fee line item and total_fees are 0 for every
\* sale price, shipping cost and option set, so profit = sale_price +
\* shipping_cost - item_cost; no buyer-side rate enters the total.
C6_VintedSellerFeeZero ==
    (Done("calculate_fees") /\ args.platform = "vinted")
    => /\ result.status = "returned"
       /\ result.value.total_fees = 0
       /\ LineValue(result.value.fee_breakdown, "seller_fee") = 0
       /\ SumNumeric(result.value.fee_breakdown) = 0
       /\ result.value.profit =
            Micro(args.sale_price + args.shipping_cost - args.item_cost)

\* a priced Vinted sale with a category and other options passed
C6_Witness ==
    /\ Done("calculate_fees") /\ args.platform = "vinted"
    /\ args.sale_price > 0 /\ args.shipping_cost > 0
    /\ "category" \in DOMAIN args.kwargs
    /\ "international" \in DOMAIN args.kwargs
    /\ result.value.profit > 0

AnyNegative ==
    args.sale_price < 0 \/ args.shipping_cost < 0 \/ args.item_cost < 0

\* C7: a call with a negative sale price, shipping cost or item cost is
\* rejected with an error and returns no result, whether made to
\* calculate_fees directly or through compare_platforms or
\* get_recommended_platform.
C7_NegativeRejected ==
    (pc = "done" /\ AnyNegative
        /\ op \in {"calculate_fees", "compare_platforms",
                   "get_recommended_platform"}
        /\ (op = "calculate_fees" => args.platform \in PlatformMembers))
    => result.status = "raised"

\* C8: a fee computation for a platform identifier outside the known set
\* raises ValueError and produces no fee result; FeeCalculationTool returns
\* the {"error": ...} document for it instead of a fee result.
C8_UnknownPlatformFails ==
    /\ (Done("calculate_fees") /\ args.platform \notin PlatformMembers)
       => result = Raise("ValueError")
    /\ (Done("fee_calculation_tool")
          /\ Lower(args.platform) \notin PlatformMembers)
       => /\ result.value.error
          /\ result.value.result = <<>>

\* both entry points have been given the unknown identifier
C8_Witness ==
    /\ pc = "done" /\ args.platform = UnknownPlatform
    /\ \/ op = "calculate_fees" /\ result.status = "raised"
       \/ op = "fee_calculation_tool" /\ result.value.error

\* C9: the list compare_platforms returns is ordered by profit descending:
\* every entry's profit is at least the next entry's.
C9_SortedByProfit ==
    Done("compare_platforms")
    => \A i \in 1..(Len(result.value) - 1) :
         result.value[i].profit >= result.value[i + 1].profit

\* a comparison whose result order differs from the requested order
C9_Witness ==
    /\ Done("compare_platforms")
    /\ ~args.platforms.is_none
    /\ Len(args.platforms.list) = 2 /\ Len(result.value) = 2
    /\ result.value[1].platform = args.platforms.list[2]
    /\ result.value[1].profit > result.value[2].profit

Scenario4 ==
    /\ Done("compare_platforms")
    /\ args.sale_price = 5000 /\ args.item_cost = 1000
    /\ args.shipping_cost = 500
    /\ args.platforms.is_none

ResultPlatforms == {result.value[i].platform : i \in 1..Len(result.value)}

\* C10 as stated: compare_platforms(50, 10, 5) with the default platform
\* list returns seven entries, one per supported platform, each platform
\* once.
C10_Original ==
    Scenario4
    => /\ Len(result.value) = 7
       /\ Cardinality(ResultPlatforms) = 7

\* C10 as amended: compare_platforms(50, 10, 5) with the default platform
\* list returns eight entries, one per member of MarketplacePlatform
\* (ebay, amazon, etsy, facebook_marketplace, mercari, poshmark, depop,
\* vinted), each platform once.
C10_EightEntries ==
    Scenario4
    => /\ Len(result.value) = 8
       /\ ResultPlatforms =
            {"ebay", "amazon", "etsy", "facebook_marketplace",
             "mercari", "poshmark", "depop", "vinted"}

\* the scenario's comparison has been computed
C10_Witness ==
    /\ Scenario4
    /\ Len(result.value) > 0

IsMember(p) == p \in PlatformMembers

RequestedPlatforms ==
    IF args.platforms.is_none THEN MarketplacePlatform
                              ELSE args.platforms.list

\* C13: a platform outside the known set is skipped without aborting the
\* batch: compare_platforms returns the fee result of every other requested
\* platform, the same list a comparison without the unknown platform
\* returns.
C13_InvalidPlatformSkipped ==
    (Done("compare_platforms") /\ ~args.item_cost_none)
    => LET kept == SelectSeq(RequestedPlatforms, IsMember)
       IN  /\ Len(result.value) = Len(kept)
           /\ \A i \in 1..Len(result.value) :
                result.value[i] =
                    calculate_fees(fee_structure, result.value[i].platform,
                                   args.sale_price, args.shipping_cost,
                                   args.item_cost, <<>>).value
           /\ result.value =
                compare_platforms(fee_structure, args.sale_price,
                                  ItemCostArg(args), args.shipping_cost,
                                  [is_none |-> FALSE, list |-> kept])

\* the unknown platform was requested ahead of a known one
C13_Witness ==
    /\ Done("compare_platforms") /\ ~args.item_cost_none
    /\ ~args.platforms.is_none
    /\ Len(args.platforms.list) = 2
    /\ args.platforms.list[1] = UnknownPlatform
    /\ args.platforms.list[2] \in PlatformMembers
    /\ Len(result.value) = 1

\* C14: a platform whose fee computation fails for a reason other than an
\* unknown platform (here: TypeError, item_cost=None) is not dropped: the
\* comparison holds an entry for it that carries an error annotation.
C14_OtherFailureAnnotated ==
    (Done("compare_platforms") /\ args.item_cost_none)
    => \A k \in 1..Len(RequestedPlatforms) :
         RequestedPlatforms[k] \in PlatformMembers
         => \E i \in 1..Len(result.value) :
              /\ result.value[i].platform = RequestedPlatforms[k]
              /\ "error" \in DOMAIN result.value[i]

\* C16: get_recommended_platform returns profit_advantage = profit of the
\* recommended (first-ranked) platform - profit of the second-ranked one;
\* it is never negative, and the difference computed for a comparison of
\* one platform is 0.
C16_ProfitAdvantage ==
    /\ (Done("get_recommended_platform")
          /\ result.value.recommended_platform # NONE)
       => LET c == result.value.all_comparisons
          IN  /\ result.value.recommended_platform = c[1].platform
              /\ result.value.expected_profit = c[1].profit
              /\ result.value.profit_advantage =
                   (IF Len(c) > 1 THEN c[1].profit - c[2].profit ELSE 0)
              /\ result.value.profit_advantage >= 0
    /\ Done("compare_platforms")
       => /\ ProfitDifference(result.value) >= 0
          /\ Len(result.value) = 1 => ProfitDifference(result.value) = 0

\* a recommendation with a strictly positive advantage over the runner-up
C16_Witness ==
    /\ Done("get_recommended_platform")
    /\ result.value.recommended_platform # NONE
    /\ Len(result.value.all_comparisons) > 1
    /\ result.value.profit_advantage > 0

\* C18: profit_margin_percent = (profit / (sale_price + shipping_cost)) *
\* 100 when sale_price + shipping_cost > 0, and 0, without a division, when
\* sale_price + shipping_cost = 0, for every platform and item cost.
C18_ProfitMargin ==
    (Done("calculate_fees") /\ result.status = "returned")
    => LET gross == Micro(args.sale_price + args.shipping_cost)
           margin == result.value.profit_margin_percent
       IN  /\ gross > 0
              => /\ margin.num = result.value.profit
                 /\ margin.den = gross
           /\ gross = 0 => margin.num = 0 /\ margin.den # 0

\* an unpriced item with an item cost: the denominator is 0
C18_Witness ==
    /\ Done("calculate_fees") /\ result.status = "returned"
    /\ args.sale_price + args.shipping_cost = 0
    /\ args.item_cost > 0
    /\ result.value.profit < 0

(***************************************************************************)
(* PlatformRecommendationTool (api/src/agents/recommendation_agent.py)     *)
(* A score is an integer number of tenths (7.5 is 75), a weight an integer *)
(* number of hundredths (0.25 is 25), the weighted sum an integer number   *)
(* of thousandths; a profit margin is a whole percentage.                  *)
(***************************************************************************)
\* the platforms _run analyses, in the order of its loop
AnalyzedPlatforms ==
    <<"ebay", "amazon", "facebook_marketplace", "mercari", "poshmark">>

\* _initialize_platform_profiles: the fields the scores read
platform_profiles ==
    [ebay |->
        [buying_behavior |-> "research_focused",
         category_focus |->
            {"electronics", "collectibles", "automotive", "fashion"},
         ease_of_use |-> "moderate"],
     amazon |->
        [buying_behavior |-> "convenience_focused",
         category_focus |-> {"books", "electronics", "home", "health"},
         ease_of_use |-> "difficult"],
     facebook_marketplace |->
        [buying_behavior |-> "local_focused",
         category_focus |-> {"furniture", "electronics", "vehicles", "home"},
         ease_of_use |-> "easy"],
     mercari |->
        [buying_behavior |-> "deal_focused",
         category_focus |-> {"fashion", "electronics", "beauty", "toys"},
         ease_of_use |-> "easy"],
     poshmark |->
        [buying_behavior |-> "fashion_focused",
         category_focus |-> {"fashion", "accessories", "beauty"},
         ease_of_use |-> "easy"]]

\* the profile {} of a platform without one, read through the defaults of
\* profile.get(...)
EmptyProfile ==
    [buying_behavior |-> "", category_focus |-> {},
     ease_of_use |-> "moderate"]

\* self.platform_profiles.get(platform, {})
Profile(platform) ==
    IF platform \in DOMAIN platform_profiles
    THEN platform_profiles[platform]
    ELSE EmptyProfile

\* "high_quality" in buying_behavior: the behaviours holding that substring
\* (no profile has one)
HighQualityBehaviors == {"high_quality_focused"}

\* cat in product_category: the focus words a category string contains
ContainedIn(product_category) ==
    CASE product_category = "consumer electronics" -> {"electronics"}
      [] product_category = "other" -> {}
      [] OTHER -> {product_category}

_calculate_audience_match(condition, profile) ==
    LET base_score ==
            IF condition \in {"new", "like_new"}
               /\ profile.buying_behavior \in HighQualityBehaviors
            THEN 70 + 15
            ELSE IF condition \in {"good", "very_good"}
            THEN 70 + 5
            ELSE 70
    IN  IF base_score > 100 THEN 100
        ELSE IF base_score < 0 THEN 0 ELSE base_score

_calculate_category_fit(product_category, profile) ==
    IF product_category \in profile.category_focus THEN 90
    ELSE IF ContainedIn(product_category) \cap profile.category_focus # {}
    THEN 70
    ELSE 50

_calculate_fee_competitiveness(profit_margin) ==
    IF profit_margin >= 80 THEN 100
    ELSE IF profit_margin >= 70 THEN 85
    ELSE IF profit_margin >= 60 THEN 70
    ELSE IF profit_margin >= 50 THEN 55
    ELSE IF profit_margin >= 40 THEN 40
    ELSE 20

_calculate_ease_of_use(profile) ==
    CASE profile.ease_of_use = "easy" -> 90
      [] profile.ease_of_use = "moderate" -> 70
      [] profile.ease_of_use = "difficult" -> 40
      [] OTHER -> 70

\* platform_data: [error, total_listings, sold_listings_count], an absent
\* count read as its default 0
_calculate_market_data_score(platform_data) ==
    LET total_listings == platform_data.total_listings
        sold_listings == platform_data.sold_listings_count
        activity_score ==
            IF total_listings > 100 THEN 90
            ELSE IF total_listings > 50 THEN 80
            ELSE IF total_listings > 20 THEN 65
            ELSE IF total_listings > 5 THEN 50
            ELSE 30
        adjusted ==
            IF sold_listings > 0 /\ total_listings > 0
            THEN IF 2 * sold_listings > total_listings
                 THEN activity_score + 10
                 ELSE IF 10 * sold_listings > 3 * total_listings
                 THEN activity_score + 5
                 ELSE activity_score
            ELSE activity_score
    IN  IF platform_data.error THEN 50
        ELSE IF adjusted > 100 THEN 100 ELSE adjusted

\* mutant: the five scores weighted alike
overall_score_equal_weights(platform, product, platform_data, platform_pricing) ==
    LET profile == Profile(platform)
    IN  (_calculate_audience_match(product.condition, profile)
         + _calculate_category_fit(product.category, profile)
         + _calculate_fee_competitiveness(platform_pricing.profit_margin)
         + _calculate_ease_of_use(profile)
         + _calculate_market_data_score(platform_data)) * 20

\* overall_score before rounding, in thousandths
overall_score(platform, product, platform_data, platform_pricing) ==
    LET profile == Profile(platform)
    IN  _calculate_audience_match(product.condition, profile) * 25
        + _calculate_category_fit(product.category, profile) * 25
        + _calculate_fee_competitiveness(platform_pricing.profit_margin) * 20
        + _calculate_ease_of_use(profile) * 15
        + _calculate_market_data_score(platform_data) * 15

\* round(x, 1) of x thousandths, in tenths: the nearest tenth.  A sum that
\* ends in exactly 50 thousandths is a tie the binary float settles either
\* way; the inputs drawn below produce none.
RoundTenth(thousandths) ==
    LET q == thousandths \div 100
        r == thousandths % 100
    IN  IF r > 50 \/ (r = 50 /\ q % 2 = 1) THEN q + 1 ELSE q

\* the results round(x, 1) can have: at a tie, either neighbour
RoundTenthOutcomes(thousandths) ==
    IF thousandths % 100 = 50
    THEN {thousandths \div 100, (thousandths \div 100) + 1}
    ELSE {RoundTenth(thousandths)}

\* detailed_scores: each score rounded to a tenth, which it is already
detailed_scores(platform, product, platform_data, platform_pricing) ==
    LET profile == Profile(platform)
    IN  [audience_match |->
            _calculate_audience_match(product.condition, profile),
         category_fit |->
            _calculate_category_fit(product.category, profile),
         fee_competitiveness |->
            _calculate_fee_competitiveness(platform_pricing.profit_margin),
         ease_of_use |-> _calculate_ease_of_use(profile),
         market_presence |-> _calculate_market_data_score(platform_data)]

\* the scores and projections of _analyze_platform's result (the advice
\* texts and time estimates are left out)
_analyze_platform(platform, product, platform_data, platform_pricing) ==
    [platform_name |-> platform,
     overall_score |->
        RoundTenth(overall_score(platform, product, platform_data,
                                 platform_pricing)),
     detailed_scores |->
        detailed_scores(platform, product, platform_data, platform_pricing),
     estimated_net_profit |-> platform_pricing.net_profit,
     profit_margin_percentage |-> platform_pricing.profit_margin,
     has_error |-> FALSE]

\* mutant: net profit ahead of the score in the sort key
ProfitKeyAtLeast(a, b) ==
    \/ a.net_profit > b.net_profit
    \/ a.net_profit = b.net_profit /\ a.score >= b.score

\* the sort key (score, net_profit) of a is not below that of b
KeyAtLeast(a, b) ==
    \/ a.score > b.score
    \/ a.score = b.score /\ a.net_profit >= b.net_profit

\* sorted(..., reverse=True) is stable: an entry goes behind every entry
\* whose key is not below its own
RECURSIVE InsertByKey(_, _)
InsertByKey(sorted, x) ==
    IF sorted = <<>> THEN <<x>>
    ELSE IF KeyAtLeast(Head(sorted), x)
         THEN <<Head(sorted)>> \o InsertByKey(Tail(sorted), x)
         ELSE <<x>> \o sorted

RECURSIVE SortByKey(_)
SortByKey(platforms) ==
    IF platforms = <<>> THEN <<>>
    ELSE InsertByKey(SortByKey(SubSeq(platforms, 1, Len(platforms) - 1)),
                     platforms[Len(platforms)])

HasNoError(recommendation) == ~recommendation.has_error

RankEntry(recommendation) ==
    [platform |-> recommendation.platform_name,
     score |-> recommendation.overall_score,
     net_profit |-> recommendation.estimated_net_profit]

\* platform_recommendations: the recommendations in the dict's order
_rank_platforms(platform_recommendations) ==
    LET kept == SelectSeq(platform_recommendations, HasNoError)
    IN  SortByKey([i \in 1..Len(kept) |-> RankEntry(kept[i])])

\* PlatformRecommendationTool._run: the recommendations and their ranking
recommendation_run(product_data, market_data, pricing_data) ==
    LET platform_recommendations ==
            [i \in 1..Len(AnalyzedPlatforms) |->
                _analyze_platform(AnalyzedPlatforms[i], product_data,
                                  market_data[AnalyzedPlatforms[i]],
                                  pricing_data[AnalyzedPlatforms[i]])]
    IN  [platform_recommendations |-> platform_recommendations,
         ranked_platforms |-> _rank_platforms(platform_recommendations)]

\* product conditions and categories of the analysed product
Conditions == {"good", "very_good"}

Categories == {"other", "electronics", "consumer electronics"}

Products == [condition : Conditions, category : Categories]

\* market research of one platform: failed, or a busy market
MarketResearch ==
    {[error |-> TRUE, total_listings |-> 0, sold_listings_count |-> 0],
     [error |-> FALSE, total_listings |-> 120, sold_listings_count |-> 80]}

\* platform_specific pricing of one platform: margin in percent, net
\* profit in cents
PlatformPricing ==
    {[profit_margin |-> 85, net_profit |-> 4000],
     [profit_margin |-> 85, net_profit |-> 4500],
     [profit_margin |-> 45, net_profit |-> 1500]}

\* no market data and no pricing data for a platform
NoMarketData ==
    [error |-> FALSE, total_listings |-> 0, sold_listings_count |-> 0]

NoPricing == [profit_margin |-> 0, net_profit |-> 0]

(***************************************************************************)
(* PricingStrategyTool (api/src/agents/pricing_agent.py)                   *)
(* A net profit is an integer number of cents.                             *)
(***************************************************************************)
_assess_platform_suitability(platform_data) ==
    LET listings_count == platform_data.total_listings
    IN  IF platform_data.error THEN "unknown"
        ELSE IF listings_count > 50 THEN "excellent"
        ELSE IF listings_count > 20 THEN "good"
        ELSE IF listings_count > 5 THEN "fair"
        ELSE "poor"

\* an entry of platform_pricing: the net profit computed for the platform
\* and the suitability assessed from its market data
PlatformPricingEntry(platform, net_profit, platform_data) ==
    [platform |-> platform,
     net_profit |-> net_profit,
     platform_suitability |-> _assess_platform_suitability(platform_data)]

\* the key of max(...): a "poor" platform counts as net profit 0
BestPlatformKey(entry) ==
    IF entry.platform_suitability # "poor" THEN entry.net_profit ELSE 0

\* max(items, key=...): the first item whose key no other item exceeds
PyMaxByKey(items) ==
    LET best == CHOOSE i \in 1..Len(items) :
                    /\ \A j \in 1..Len(items) :
                          BestPlatformKey(items[j]) <= BestPlatformKey(items[i])
                    /\ \A j \in 1..(i - 1) :
                          BestPlatformKey(items[j]) < BestPlatformKey(items[i])
    IN  items[best]

\* sorted(platform_pricing.items(), key=net_profit, reverse=True)[0]
MostProfitable(items) ==
    LET best == CHOOSE i \in 1..Len(items) :
                    /\ \A j \in 1..Len(items) :
                          items[j].net_profit <= items[i].net_profit
                    /\ \A j \in 1..(i - 1) :
                          items[j].net_profit < items[i].net_profit
    IN  items[best]

StrategyNames == <<"competitive", "quick_sale", "premium", "auction_start">>

IsAlternative(recommended_strategy, strategies, name) ==
    name # recommended_strategy /\ strategies[name].price > 0

\* platform_pricing: the entries in the dict's order (never empty);
\* strategies: strategy name -> [price]; priority: user_preferences'
\* priority, "balanced" when absent.  The fixed texts (pros, cons, general
\* tips) are left out.
_generate_pricing_recommendations(strategies, platform_pricing, priority) ==
    LET recommended_strategy ==
            IF priority = "quick_sale" THEN "quick_sale"
            ELSE IF priority = "max_profit" THEN "premium"
            ELSE "competitive"
        best_platform == PyMaxByKey(platform_pricing)
        Alternative(name) ==
            IsAlternative(recommended_strategy, strategies, name)
        alternatives == SelectSeq(StrategyNames, Alternative)
    IN  [recommended_strategy |-> recommended_strategy,
         recommended_price |-> strategies[recommended_strategy].price,
         best_platform |-> best_platform.platform,
         best_platform_details |-> best_platform,
         alternative_strategies |->
            [i \in 1..Len(alternatives) |->
                [strategy |-> alternatives[i],
                 price |-> strategies[alternatives[i]].price]],
         tip_platform |-> MostProfitable(platform_pricing).platform]

(***************************************************************************)
(* Price statistics (google_shopping_service.py, marketplace_agent.py,     *)
(* marketplace_service.py, models/product.py, pricing_agent.py)            *)
(* An observed price is an integer number of mills (a tenth of a cent);    *)
(* a mean or a statistics.median is the exact ratio [num, den].            *)
(***************************************************************************)
RECURSIVE InsertAscending(_, _)
InsertAscending(sorted, x) ==
    IF sorted = <<>> THEN <<x>>
    ELSE IF Head(sorted) <= x
         THEN <<Head(sorted)>> \o InsertAscending(Tail(sorted), x)
         ELSE <<x>> \o sorted

\* sorted(prices)
RECURSIVE Sorted(_)
Sorted(prices) ==
    IF prices = <<>> THEN <<>>
    ELSE InsertAscending(Sorted(Tail(prices)), Head(prices))

RECURSIVE Sum(_)
Sum(prices) == IF prices = <<>> THEN 0 ELSE Head(prices) + Sum(Tail(prices))

\* mutant: the first price taken for the lowest
FirstPrice(prices) == prices[1]

\* min(prices), max(prices) of a list that is not empty
Min(prices) == CHOOSE x \in Range(prices) : \A y \in Range(prices) : x <= y

Max(prices) == CHOOSE x \in Range(prices) : \A y \in Range(prices) : y <= x

IsPositive(price) == price > 0

\* sorted(prices)[len(prices) // 2], the index counted from 0 in the source
MiddleElement(prices) == Sorted(prices)[(Len(prices) \div 2) + 1]

\* round(num / den, 2) of a price of num / den mills, in mills: the nearest
\* cent.  A value that ends in exactly half a cent is a tie the binary
\* float settles either way; the prices drawn below produce none.
Round2(num, den) ==
    LET q == num \div (10 * den)
        r == num % (10 * den)
    IN  10 * (IF 2 * r > 10 * den \/ (2 * r = 10 * den /\ q % 2 = 1)
              THEN q + 1 ELSE q)

\* GoogleShoppingService.get_price_insights, from the prices of the
\* products found (0 for a product without one): the counts and the price
\* range, which has no median when no product was found
get_price_insights(product_prices) ==
    LET prices == SelectSeq(product_prices, IsPositive)
    IN  IF product_prices = <<>>
        THEN [total_products |-> 0,
              price_range |-> [min |-> 0, max |-> 0, average |-> 0]]
        ELSE
        [total_products |-> Len(product_prices),
         price_range |->
            IF prices # <<>>
            THEN [min |-> Round2(Min(prices), 1),
                  max |-> Round2(Max(prices), 1),
                  average |-> Round2(Sum(prices), Len(prices)),
                  median |-> Round2(MiddleElement(prices), 1)]
            ELSE [min |-> 0, max |-> 0, average |-> 0, median |-> 0]]

HasPrice(item) == item.price > 0

IsSold(item) == item.price > 0 /\ item.selling_state = "ENDED"

IsActive(item) == item.price > 0 /\ item.selling_state # "ENDED"

\* MarketplaceResearchTool._assess_demand, from the two counts
_assess_demand(sold, active) ==
    IF sold = 0 /\ active = 0 THEN "unknown"
    ELSE IF 10 * sold > 7 * (sold + active) THEN "high"
    ELSE IF 10 * sold > 4 * (sold + active) THEN "medium"
    ELSE "low"

\* MarketplaceResearchTool._research_ebay, from the items of the search
\* result: [price, selling_state], price 0 for an item without one
_research_ebay(items) ==
    LET priced == SelectSeq(items, HasPrice)
        prices == [i \in 1..Len(priced) |-> priced[i].price]
        sold == Len(SelectSeq(items, IsSold))
        active == Len(SelectSeq(items, IsActive))
    IN  [platform |-> "ebay",
         total_listings |-> Len(items),
         sold_listings_count |-> sold,
         active_listings_count |-> active,
         price_statistics |->
            IF prices # <<>>
            THEN [average |-> [num |-> Sum(prices), den |-> Len(prices)],
                  minimum |-> Min(prices),
                  maximum |-> Max(prices),
                  median |-> MiddleElement(prices)]
            ELSE [average |-> [num |-> 0, den |-> 1],
                  minimum |-> 0, maximum |-> 0, median |-> 0],
         market_demand |-> _assess_demand(sold, active)]

\* models/product.py PriceRange: the field bounds (ge=0) and the two
\* validators
PriceRange(low, median, high) ==
    IF low < 0 \/ median < 0 \/ high < 0 \/ median < low \/ high < median
    THEN Raise("ValueError")
    ELSE Return([low |-> low, median |-> median, high |-> high,
                 currency |-> "USD"])

\* MarketplaceService._analyze_ebay: the price_range of the completed
\* listings' prices, None when no price is positive; a ValueError of
\* PriceRange leaves the method
_analyze_ebay_price_range(listing_prices) ==
    LET prices == SelectSeq(listing_prices, IsPositive)
        range == PriceRange(Min(prices), MiddleElement(prices), Max(prices))
    IN  IF prices = <<>> THEN Return([is_none |-> TRUE])
        ELSE IF range.status = "raised" THEN range
        ELSE Return([is_none |-> FALSE, price_range |-> range.value])

\* statistics.median of a list that is not empty
statistics_median(data) ==
    LET s == Sorted(data)
        n == Len(data)
    IN  IF n % 2 = 1
        THEN [num |-> s[(n \div 2) + 1], den |-> 1]
        ELSE [num |-> s[n \div 2] + s[(n \div 2) + 1], den |-> 2]

\* PricingStrategyTool._calculate_competitive_pricing; confidence in tenths
_calculate_competitive_pricing(market_prices) ==
    IF market_prices = <<>>
    THEN [price |-> 0, strategy |-> "no_market_data"]
    ELSE LET median_price == statistics_median(market_prices)
         IN  [price |-> Round2(median_price.num * 95, median_price.den * 100),
              strategy |-> "competitive",
              market_position |-> "slightly_below_median",
              expected_sale_speed |-> "medium",
              confidence |-> 8]

(***************************************************************************)
(* Inputs of the analysis tools                                            *)
(***************************************************************************)
\* longest list of observed prices
MaxPrices == 4

\* observed prices, in mills: $10, $20, $30, $40, a price of $10.004, a
\* missing price (0) and a negative one
ObservedPrices == {10000, 20000, 30000, 40000, 10004, 0, -5000}

PriceLists == SeqsUpTo(ObservedPrices, MaxPrices)

\* the items of an eBay search result
EbayItems ==
    [price : ObservedPrices, selling_state : {"ENDED"}]
        \cup [price : {0, 10000}, selling_state : {"ACTIVE"}]

IsAscending(prices) ==
    \A i \in 1..(Len(prices) - 1) : prices[i] <= prices[i + 1]

\* the lists _extract_market_prices returns: positive prices, ascending
MarketPriceLists ==
    {q \in SeqsUpTo({p \in ObservedPrices : p > 0}, MaxPrices) :
        IsAscending(q)}

\* net profits of a platform, in cents, and the market data behind its
\* suitability
NetProfits == {-500, 0, 500}

SuitabilityData ==
    {[error |-> FALSE, total_listings |-> 5, sold_listings_count |-> 0],
     [error |-> FALSE, total_listings |-> 6, sold_listings_count |-> 0]}

\* market data at the edges of the suitability bands
ListingCounts == {0, 5, 6, 20, 21, 50, 51}

Priorities == {"balanced", "quick_sale", "max_profit"}

\* the prices of the four strategies, in cents
StrategyPrices ==
    [competitive |-> [price |-> 2375], quick_sale |-> [price |-> 1950],
     premium |-> [price |-> 2800], auction_start |-> [price |-> 1625]]

AnalysisOps ==
    {"recommendation_run", "generate_pricing_recommendations",
     "assess_platform_suitability", "get_price_insights", "research_ebay",
     "analyze_ebay", "calculate_competitive_pricing", "compare_platforms"}

AnalysisCallsOf(o) ==
    CASE o = "recommendation_run" ->
            [product_data : Products,
             market_data : [Range(AnalyzedPlatforms) -> MarketResearch],
             pricing_data : [Range(AnalyzedPlatforms) -> PlatformPricing]]
      [] o = "generate_pricing_recommendations" ->
            [priority : Priorities,
             net_profit : [Range(AnalyzedPlatforms) -> NetProfits],
             platform_data : [Range(AnalyzedPlatforms) -> SuitabilityData]]
      [] o = "assess_platform_suitability" ->
            [platform_data :
                [error : BOOLEAN, total_listings : ListingCounts,
                 sold_listings_count : {0}]]
      [] o = "get_price_insights" -> [prices : PriceLists]
      [] o = "research_ebay" -> [items : SeqsUpTo(EbayItems, MaxPrices)]
      [] o = "analyze_ebay" -> [prices : PriceLists]
      [] o = "calculate_competitive_pricing" ->
            [market_prices : MarketPriceLists]
      [] o = "compare_platforms" ->
            {Args("", m, <<>>, DefaultPlatforms) : m \in Money}

(***************************************************************************)
(* The analysis tools: one call of one tool, or one comparison of the      *)
(* fee service                                                             *)
(***************************************************************************)
InitAnalysis ==
    /\ fee_structure = InitialFeeStructure
    /\ op \in AnalysisOps
    /\ args \in AnalysisCallsOf(op)
    /\ pc = "call"
    /\ result = NoResult
    /\ cache = EmptyCache

RecommendationRun ==
    /\ pc = "call" /\ op = "recommendation_run"
    /\ result' = Return(recommendation_run(args.product_data,
                            args.market_data, args.pricing_data))
    /\ pc' = "done"
    /\ UNCHANGED <<fee_structure, op, args, cache>>

GeneratePricingRecommendations ==
    /\ pc = "call" /\ op = "generate_pricing_recommendations"
    /\ LET platform_pricing ==
               [i \in 1..Len(AnalyzedPlatforms) |->
                   PlatformPricingEntry(AnalyzedPlatforms[i],
                       args.net_profit[AnalyzedPlatforms[i]],
                       args.platform_data[AnalyzedPlatforms[i]])]
       IN  result' = Return(_generate_pricing_recommendations(
                                StrategyPrices, platform_pricing,
                                args.priority))
    /\ pc' = "done"
    /\ UNCHANGED <<fee_structure, op, args, cache>>

AssessPlatformSuitability ==
    /\ pc = "call" /\ op = "assess_platform_suitability"
    /\ result' = Return(_assess_platform_suitability(args.platform_data))
    /\ pc' = "done"
    /\ UNCHANGED <<fee_structure, op, args, cache>>

GetPriceInsights ==
    /\ pc = "call" /\ op = "get_price_insights"
    /\ result' = Return(get_price_insights(args.prices))
    /\ pc' = "done"
    /\ UNCHANGED <<fee_structure, op, args, cache>>

ResearchEbay ==
    /\ pc = "call" /\ op = "research_ebay"
    /\ result' = Return(_research_ebay(args.items))
    /\ pc' = "done"
    /\ UNCHANGED <<fee_structure, op, args, cache>>

AnalyzeEbay ==
    /\ pc = "call" /\ op = "analyze_ebay"
    /\ result' = _analyze_ebay_price_range(args.prices)
    /\ pc' = "done"
    /\ UNCHANGED <<fee_structure, op, args, cache>>

CalculateCompetitivePricing ==
    /\ pc = "call" /\ op = "calculate_competitive_pricing"
    /\ result' = Return(_calculate_competitive_pricing(args.market_prices))
    /\ pc' = "done"
    /\ UNCHANGED <<fee_structure, op, args, cache>>

NextAnalysis ==
    \/ RecommendationRun
    \/ GeneratePricingRecommendations
    \/ AssessPlatformSuitability
    \/ GetPriceInsights
    \/ ResearchEbay
    \/ AnalyzeEbay
    \/ CalculateCompetitivePricing
    \/ ComparePlatforms

SpecAnalysis == InitAnalysis /\ [][NextAnalysis]_vars

(***************************************************************************)
(* Properties of the rankings and recommendations                          *)
(***************************************************************************)
\* the tie epsilon of the ranking, $0.01, in micro-dollars
TieEpsilon == Micro(1)

\* the overall score _analyze_platform gives a platform for a product, no
\* market or pricing data at hand
SuitabilityScore(platform, product) ==
    _analyze_platform(platform, product, NoMarketData, NoPricing).overall_score

\* C11: two neighbours of a comparison whose profits are equal within
\* $0.01 are ordered by overall suitability score descending, for every
\* product the score is computed for.
C11_TieBrokenBySuitability ==
    (Done("compare_platforms") /\ ~args.item_cost_none /\ NonNegative)
    => \A i \in 1..(Len(result.value) - 1) :
         (result.value[i].profit - result.value[i + 1].profit <= TieEpsilon)
         => \A product \in Products :
              SuitabilityScore(result.value[i].platform, product)
                >= SuitabilityScore(result.value[i + 1].platform, product)

Ranked == result.value.ranked_platforms

PricingEntries ==
    [i \in 1..Len(AnalyzedPlatforms) |->
        PlatformPricingEntry(AnalyzedPlatforms[i],
                             args.net_profit[AnalyzedPlatforms[i]],
                             args.platform_data[AnalyzedPlatforms[i]])]

NotPoor(entry) == entry.platform_suitability # "poor"

\* C15: the best_platform of the pricing recommendations is a platform
\* that is not "poor" whenever one exists, and no platform that is not
\* "poor" has a higher net profit, also when every such platform has a
\* zero or negative net profit.
C15_BestPlatformNotPoor ==
    Done("generate_pricing_recommendations")
    => LET candidates == SelectSeq(PricingEntries, NotPoor)
       IN  candidates # <<>>
           => /\ NotPoor(result.value.best_platform_details)
              /\ \A i \in 1..Len(candidates) :
                   candidates[i].net_profit
                     <= result.value.best_platform_details.net_profit

(***************************************************************************)
(* Properties of the price statistics                                      *)
(***************************************************************************)
SomePositive(prices) == \E i \in 1..Len(prices) : prices[i] > 0

ItemPrices == [i \in 1..Len(args.items) |-> args.items[i].price]

\* C19: for a list of observed prices with a positive value, the
\* statistics satisfy min <= median <= max in the Google Shopping
\* insights, in the eBay research and in the eBay PriceRange, which is
\* built without a ValueError.
C19_MinMedianMax ==
    /\ (Done("get_price_insights") /\ SomePositive(args.prices))
       => LET range == result.value.price_range
          IN  /\ range.min > 0
              /\ range.min <= range.median
              /\ range.median <= range.max
    /\ (Done("research_ebay") /\ SomePositive(ItemPrices))
       => LET stats == result.value.price_statistics
          IN  /\ stats.minimum > 0
              /\ stats.minimum <= stats.median
              /\ stats.median <= stats.maximum
    /\ (Done("analyze_ebay") /\ SomePositive(args.prices))
       => /\ result.status = "returned"
          /\ ~result.value.is_none
          /\ result.value.price_range.low > 0
          /\ result.value.price_range.low <= result.value.price_range.median
          /\ result.value.price_range.median <= result.value.price_range.high

\* an eBay price range of prices observed out of order, its median
\* strictly between low and high
C19_Witness ==
    /\ Done("analyze_ebay")
    /\ Len(args.prices) >= 3
    /\ args.prices[1] > args.prices[2]
    /\ result.status = "returned"
    /\ ~result.value.is_none
    /\ result.value.price_range.low < result.value.price_range.median
    /\ result.value.price_range.median < result.value.price_range.high

\* the lower-middle element of the positive prices: the middle one of an
\* odd count
LowerMiddle(prices) ==
    LET positive == SelectSeq(prices, IsPositive)
    IN  Sorted(positive)[(Len(positive) + 1) \div 2]

\* C20: every median is the middle element of the ascending prices for an
\* odd count and the lower-middle element for an even count: in the Google
\* Shopping insights, in the eBay research, in the eBay PriceRange, and in
\* the competitive price (95% of the median, rounded to cents).
C20_LowerMiddleMedian ==
    /\ (Done("get_price_insights") /\ SomePositive(args.prices))
       => result.value.price_range.median
            = Round2(LowerMiddle(args.prices), 1)
    /\ (Done("research_ebay") /\ SomePositive(ItemPrices))
       => result.value.price_statistics.median = LowerMiddle(ItemPrices)
    /\ (Done("analyze_ebay") /\ SomePositive(args.prices)
          /\ result.status = "returned")
       => result.value.price_range.median = LowerMiddle(args.prices)
    /\ (Done("calculate_competitive_pricing") /\ args.market_prices # <<>>)
       => result.value.price
            = Round2(LowerMiddle(args.market_prices) * 95, 100)

(***************************************************************************)
(* Callers sharing one FeeService.  Each caller invokes one method after   *)
(* another; the loop of compare_platforms runs one platform at a step, so  *)
(* the calls of different callers interleave inside a comparison.  Here    *)
(* op, args, pc and result hold one value per caller, and pc[c] is         *)
(* [at, i, comparisons]: the caller's position, the index of the loop and  *)
(* the comparisons collected so far.                                       *)
(***************************************************************************)
\* callers of the one service
NumCallers == 2

Callers == 1..NumCallers

\* mutant: a call leaves eBay's category rate behind in the shared table
FeeStructureDiscounted(self) ==
    [self EXCEPT !.ebay.final_value_fee = self.ebay.category_exceptions.motors]

\* self.fee_structure once a fee computation has run: fees =
\* self.fee_structure[platform] is handed to the platform's method by
\* reference, and no method assigns to it
FeeStructureAfterCall(self) == self

CallMoney ==
    {[sale_price |-> 5000, shipping_cost |-> 500, item_cost |-> 1000,
      item_cost_none |-> FALSE],
     [sale_price |-> 1499, shipping_cost |-> 0, item_cost |-> 0,
      item_cost_none |-> FALSE]}

\* the calls a caller makes: [op, args]
CallMenu ==
    {[op |-> "calculate_fees", args |-> Args(p, m, <<>>, DefaultPlatforms)] :
        p \in {"ebay", UnknownPlatform}, m \in CallMoney}
    \cup
    {[op |-> "compare_platforms",
      args |-> Args("", m, <<>>,
                    [is_none |-> FALSE, list |-> <<"poshmark", "ebay">>])] :
        m \in CallMoney}
    \cup
    {[op |-> "get_recommended_platform",
      args |-> Args("", m, <<>>, DefaultPlatforms)] :
        m \in {[sale_price |-> 5000, shipping_cost |-> 500,
                item_cost |-> 1000, item_cost_none |-> FALSE]}}

At(position) == [at |-> position, i |-> 0, comparisons |-> <<>>]

\* the platforms a comparison of caller c loops over
LoopPlatforms(c) ==
    IF args[c].platforms.is_none THEN MarketplacePlatform
                                 ELSE args[c].platforms.list

InitCalls ==
    /\ fee_structure = InitialFeeStructure
    /\ op = [c \in Callers |-> ""]
    /\ args = [c \in Callers |-> Args("", CHOOSE m \in CallMoney : TRUE,
                                      <<>>, DefaultPlatforms)]
    /\ pc = [c \in Callers |-> At("idle")]
    /\ result = [c \in Callers |-> NoResult]
    /\ cache = EmptyCache

\* a caller that is idle, or has its last result, makes its next call
Invoke(c) ==
    /\ pc[c].at \in {"idle", "done"}
    /\ \E call \in CallMenu :
         /\ op' = [op EXCEPT ![c] = call.op]
         /\ args' = [args EXCEPT ![c] = call.args]
    /\ pc' = [pc EXCEPT ![c] = At("call")]
    /\ result' = [result EXCEPT ![c] = NoResult]
    /\ UNCHANGED <<fee_structure, cache>>

CallCalculateFees(c) ==
    /\ pc[c].at = "call" /\ op[c] = "calculate_fees"
    /\ result' = [result EXCEPT ![c] =
                     calculate_fees(fee_structure, args[c].platform,
                                    args[c].sale_price, args[c].shipping_cost,
                                    args[c].item_cost, args[c].kwargs)]
    /\ fee_structure' = FeeStructureAfterCall(fee_structure)
    /\ pc' = [pc EXCEPT ![c] = At("done")]
    /\ UNCHANGED <<op, args, cache>>

\* compare_platforms is entered, by the caller or by
\* get_recommended_platform: comparisons = []
BeginCompare(c) ==
    /\ pc[c].at = "call"
    /\ op[c] \in {"compare_platforms", "get_recommended_platform"}
    /\ pc' = [pc EXCEPT ![c] = [at |-> "loop", i |-> 1, comparisons |-> <<>>]]
    /\ UNCHANGED <<fee_structure, op, args, result, cache>>

\* one pass of the for loop
CompareStep(c) ==
    /\ pc[c].at = "loop" /\ pc[c].i <= Len(LoopPlatforms(c))
    /\ LET r == TryCalculateFees(fee_structure, LoopPlatforms(c)[pc[c].i],
                                 args[c].sale_price, args[c].shipping_cost,
                                 ItemCostArg(args[c]))
       IN  pc' = [pc EXCEPT ![c] =
                    [at |-> "loop", i |-> pc[c].i + 1,
                     comparisons |->
                        IF r.status = "returned"
                        THEN Append(pc[c].comparisons, r.value)
                        ELSE pc[c].comparisons]]
    /\ fee_structure' = FeeStructureAfterCall(fee_structure)
    /\ UNCHANGED <<op, args, result, cache>>

\* the loop is over: the sort, and compare_platforms returns
FinishCompare(c) ==
    /\ pc[c].at = "loop" /\ pc[c].i > Len(LoopPlatforms(c))
    /\ op[c] = "compare_platforms"
    /\ result' = [result EXCEPT ![c] =
                     Return(SortByProfit(pc[c].comparisons))]
    /\ pc' = [pc EXCEPT ![c] = At("done")]
    /\ UNCHANGED <<fee_structure, op, args, cache>>

\* the loop is over: the sort, and get_recommended_platform returns
FinishRecommend(c) ==
    /\ pc[c].at = "loop" /\ pc[c].i > Len(LoopPlatforms(c))
    /\ op[c] = "get_recommended_platform"
    /\ result' = [result EXCEPT ![c] =
                     Return(Recommendation(SortByProfit(pc[c].comparisons)))]
    /\ pc' = [pc EXCEPT ![c] = At("done")]
    /\ UNCHANGED <<fee_structure, op, args, cache>>

NextCalls ==
    \/ \E c \in Callers : Invoke(c)
    \/ \E c \in Callers : CallCalculateFees(c)
    \/ \E c \in Callers : BeginCompare(c)
    \/ \E c \in Callers : CompareStep(c)
    \/ \E c \in Callers : FinishCompare(c)
    \/ \E c \in Callers : FinishRecommend(c)

SpecCalls == InitCalls /\ [][NextCalls]_vars

\* what a call returns on the service as constructed, no other call made
Outcome(o, a) ==
    CASE o = "calculate_fees" ->
            calculate_fees(InitialFeeStructure, a.platform, a.sale_price,
                           a.shipping_cost, a.item_cost, a.kwargs)
      [] o = "compare_platforms" ->
            Return(compare_platforms(InitialFeeStructure, a.sale_price,
                       ItemCostArg(a), a.shipping_cost, a.platforms))
      [] o = "get_recommended_platform" ->
            Return(get_recommended_platform(InitialFeeStructure,
                       a.sale_price, ItemCostArg(a), "", a.shipping_cost))

\* C17: under every interleaving of calculate_fees, compare_platforms and
\* get_recommended_platform calls of the callers, fee_structure stays as
\* constructed, every call returns what the same call returns on a fresh
\* service, and two calls with identical inputs return identical output.
C17_Pure ==
    /\ fee_structure = InitialFeeStructure
    /\ \A c \in Callers :
         pc[c].at = "done" => result[c] = Outcome(op[c], args[c])
    /\ \A c \in Callers : \A d \in Callers :
         (pc[c].at = "done" /\ pc[d].at = "done"
            /\ op[c] = op[d] /\ args[c] = args[d])
         => result[c] = result[d]

\* one caller holds the result of a comparison while another caller, in
\* the middle of a comparison for another input, has a platform collected
C17_Witness ==
    \E c \in Callers : \E d \in Callers :
        /\ pc[c].at = "done" /\ op[c] = "compare_platforms"
        /\ Len(result[c].value) = 2
        /\ pc[d].at = "loop" /\ op[d] = "compare_platforms"
        /\ args[d] # args[c]
        /\ Len(pc[d].comparisons) = 1

(***************************************************************************)
(* Properties of the eBay and Amazon options                               *)
(***************************************************************************)
\* kwargs with one key not passed
Without(kwargs, key) == [k \in (DOMAIN kwargs) \ {key} |-> kwargs[k]]

\* the same calculate_fees call with one option not passed
SameCallWithout(key) ==
    calculate_fees(fee_structure, args.platform, args.sale_price,
                   args.shipping_cost, args.item_cost,
                   Without(args.kwargs, key)).value

IsStoreSubscription(line) == line.name = "store_subscription"

\* C26: for eBay, a store_subscription option adds a store_subscription
\* line (the monthly amount) to the breakdown and leaves total_fees,
\* net_revenue, profit and every other line as in the same call without
\* the option.
C26_StoreSubscriptionInformational ==
    (Done("calculate_fees") /\ result.status = "returned"
       /\ args.platform = "ebay" /\ "store_subscription" \in DOMAIN args.kwargs)
    => LET plain == SameCallWithout("store_subscription")
       IN  /\ HasLine(result.value.fee_breakdown, "store_subscription")
           /\ LineValue(result.value.fee_breakdown, "store_subscription")
                = Micro(fee_structure.ebay.store_subscription[
                            args.kwargs["store_subscription"]])
           /\ ~HasLine(plain.fee_breakdown, "store_subscription")
           /\ SelectSeq(result.value.fee_breakdown, NotStoreSubscription)
                = plain.fee_breakdown
           /\ result.value.total_fees = plain.total_fees
           /\ result.value.net_revenue = plain.net_revenue
           /\ result.value.profit = plain.profit

\* an international eBay sale with a basic store
C26_Witness ==
    /\ Done("calculate_fees") /\ result.status = "returned"
    /\ args.platform = "ebay" /\ args.sale_price > 0
    /\ "store_subscription" \in DOMAIN args.kwargs
    /\ "international" \in DOMAIN args.kwargs
    /\ Len(SelectSeq(result.value.fee_breakdown, IsStoreSubscription)) = 1
    /\ result.value.total_fees > 0

\* C27: for eBay with category motors the final-value fee is (sale_price +
\* shipping_cost) x the motors rate of category_exceptions, and total_fees
\* is strictly below that of the same sale without a category whenever
\* sale_price + shipping_cost > 0.
C27_CategoryRate ==
    (Done("calculate_fees") /\ result.status = "returned"
       /\ args.platform = "ebay" /\ NonNegative
       /\ "category" \in DOMAIN args.kwargs
       /\ args.kwargs["category"] = "motors"
       /\ args.sale_price + args.shipping_cost > 0)
    => /\ LineValue(result.value.fee_breakdown, "final_value_fee")
            = Times(args.sale_price + args.shipping_cost,
                    fee_structure.ebay.category_exceptions.motors)
       /\ result.value.total_fees < SameCallWithout("category").total_fees

\* C28: for Amazon the referral fee is sale_price x the category rate (the
\* default rate for an absent or unknown category), whatever the shipping
\* cost; with fba the total adds the fulfillment fee and storage_fee x
\* cubic_feet x months, the storage being 0 when cubic_feet and months are
\* not passed; without fba the total is the referral fee.
C28_AmazonFees ==
    (Done("calculate_fees") /\ result.status = "returned"
       /\ args.platform = "amazon" /\ NonNegative)
    => LET fees == fee_structure.amazon
           category == Get(args.kwargs, "category", "default")
           rate == IF category \in DOMAIN fees.category_fees
                   THEN fees.category_fees[category]
                   ELSE fees.referral_fee
           referral == Times(args.sale_price, rate)
           storage ==
               IF "cubic_feet" \in DOMAIN args.kwargs
                  /\ "storage_months" \in DOMAIN args.kwargs
               THEN Micro(fees.storage_fee) * args.kwargs["cubic_feet"]
                      * args.kwargs["storage_months"]
               ELSE 0
       IN  /\ LineValue(result.value.fee_breakdown, "referral_fee") = referral
           /\ result.value.total_fees =
                IF Get(args.kwargs, "fba", FALSE)
                THEN referral + Micro(fees.fulfillment_fee) + storage
                ELSE referral

(***************************************************************************)
(* Inputs of the pricing and scoring tools                                 *)
(***************************************************************************)
\* the platforms scored: those with a profile, and one without
ScoredPlatforms == Range(AnalyzedPlatforms) \cup {"etsy"}

AllConditions == {"new", "like_new", "very_good", "good", "poor"}

\* market activity at the edges of the bands and of the sold-ratio bonus
MarketActivity ==
    {[error |-> TRUE, total_listings |-> 0, sold_listings_count |-> 0]}
    \cup
    {[error |-> FALSE, total_listings |-> t.total,
      sold_listings_count |-> t.sold] :
        t \in {[total |-> 0, sold |-> 0], [total |-> 5, sold |-> 5],
               [total |-> 6, sold |-> 2], [total |-> 20, sold |-> 6],
               [total |-> 21, sold |-> 7], [total |-> 51, sold |-> 26],
               [total |-> 100, sold |-> 50], [total |-> 101, sold |-> 60],
               [total |-> 120, sold |-> 36]}}

\* profit margins, in percent, at the edges of the fee bands
ProfitMargins == {-10, 0, 39, 40, 50, 60, 69, 70, 80, 100}

\* PlatformRecommendationTool._analyze_platform for one platform; a tie of
\* round(overall_score, 1) may fall to either tenth
AnalyzePlatform ==
    /\ pc = "call" /\ op = "analyze_platform"
    /\ LET pricing == [profit_margin |-> args.profit_margin, net_profit |-> 0]
           analysis == _analyze_platform(args.platform, args.product_data,
                                         args.platform_data, pricing)
       IN  \E score \in RoundTenthOutcomes(
                            overall_score(args.platform, args.product_data,
                                          args.platform_data, pricing)) :
              result' = Return([analysis EXCEPT !.overall_score = score])
    /\ pc' = "done"
    /\ UNCHANGED <<fee_structure, op, args, cache>>

(***************************************************************************)
(* PricingStrategyTool: the strategies and the market analysis of _run     *)
(* (prices in mills, a confidence in tenths, a price ratio in hundredths)  *)
(***************************************************************************)
\* one platform's entry of market_data["platform_data"]: price_statistics
\* present or not, and its minimum, average and maximum
StatsPrices(data) ==
    IF data.has_price_statistics /\ data.average > 0
    THEN <<data.minimum, data.average, data.maximum>>
    ELSE <<>>

RECURSIVE ExtendAll(_)
ExtendAll(platform_data) ==
    IF platform_data = <<>> THEN <<>>
    ELSE StatsPrices(Head(platform_data)) \o ExtendAll(Tail(platform_data))

\* platform_data: the entries in the dict's order
_extract_market_prices(platform_data) ==
    Sorted(SelectSeq(ExtendAll(platform_data), IsPositive))

\* mutant: the quick sale at 75% of the median
_calculate_quick_sale_pricing_75(market_prices) ==
    IF market_prices = <<>>
    THEN [price |-> 0, strategy |-> "no_market_data"]
    ELSE LET median_price == statistics_median(market_prices)
         IN  [price |-> Round2(median_price.num * 75, median_price.den * 100),
              strategy |-> "quick_sale",
              market_position |-> "below_market",
              expected_sale_speed |-> "fast",
              confidence |-> 9]

_calculate_quick_sale_pricing(market_prices) ==
    IF market_prices = <<>>
    THEN [price |-> 0, strategy |-> "no_market_data"]
    ELSE LET median_price == statistics_median(market_prices)
         IN  [price |-> Round2(median_price.num * 78, median_price.den * 100),
              strategy |-> "quick_sale",
              market_position |-> "below_market",
              expected_sale_speed |-> "fast",
              confidence |-> 9]

_calculate_premium_pricing(market_prices) ==
    IF market_prices = <<>>
    THEN [price |-> 0, strategy |-> "no_market_data"]
    ELSE LET median_price == statistics_median(market_prices)
         IN  [price |-> Round2(median_price.num * 112, median_price.den * 100),
              strategy |-> "premium",
              market_position |-> "above_market",
              expected_sale_speed |-> "slow",
              confidence |-> 6]

_calculate_auction_pricing(market_prices) ==
    IF market_prices = <<>>
    THEN [price |-> 0, strategy |-> "no_market_data"]
    ELSE LET median_price == statistics_median(market_prices)
         IN  [price |-> Round2(median_price.num * 65, median_price.den * 100),
              strategy |-> "auction_start",
              market_position |-> "well_below_market",
              expected_final_price |->
                 Round2(median_price.num * 95, median_price.den * 100),
              confidence |-> 7]

\* the strategies dict of _run
Strategies(market_prices) ==
    [competitive |-> _calculate_competitive_pricing(market_prices),
     quick_sale |-> _calculate_quick_sale_pricing(market_prices),
     premium |-> _calculate_premium_pricing(market_prices),
     auction_start |-> _calculate_auction_pricing(market_prices)]

\* mutant: each boundary given to the lower band
MarketPositionInclusive(price, median_price) ==
    LET n == price * median_price.den * 100
        d == median_price.num
    IN  IF n <= 80 * d THEN "well_below_market"
        ELSE IF n <= 95 * d THEN "below_market"
        ELSE IF n <= 105 * d THEN "at_market"
        ELSE IF n <= 120 * d THEN "above_market"
        ELSE "well_above_market"

\* the band of position_ratio = price / median_price, the ratio n / (100 d)
MarketPosition(price, median_price) ==
    LET n == price * median_price.den * 100
        d == median_price.num
    IN  IF n < 80 * d THEN "well_below_market"
        ELSE IF n < 95 * d THEN "below_market"
        ELSE IF n < 105 * d THEN "at_market"
        ELSE IF n < 120 * d THEN "above_market"
        ELSE "well_above_market"

\* round(n / d, 0): the nearest integer, a tie to the even one (the inputs
\* drawn produce no tie)
RoundHalfEven(n, d) ==
    LET q == n \div d
        r == n % d
    IN  IF 2 * r > d \/ (2 * r = d /\ q % 2 = 1) THEN q + 1 ELSE q

_assess_competitive_advantage(position) ==
    CASE position = "well_below_market" -> "high_price_advantage"
      [] position = "below_market" -> "moderate_price_advantage"
      [] position = "at_market" -> "neutral"
      [] position = "above_market" -> "quality_positioning_needed"
      [] position = "well_above_market" -> "premium_justification_required"
      [] OTHER -> "unknown"

\* strategies: strategy name -> a result with a price.  The result is
\* {"analysis": "insufficient_market_data"}, or an entry for every strategy
\* whose price is positive.
_analyze_market_position(market_prices, strategies) ==
    IF market_prices = <<>>
    THEN [analysis |-> "insufficient_market_data", positions |-> <<>>]
    ELSE LET median_price == statistics_median(market_prices)
             priced == {name \in DOMAIN strategies : strategies[name].price > 0}
         IN  [analysis |-> "",
              positions |->
                 [name \in priced |->
                    LET position == MarketPosition(strategies[name].price,
                                                   median_price)
                    IN  [market_position |-> position,
                         price_ratio |->
                            RoundHalfEven(strategies[name].price
                                            * median_price.den * 100,
                                          median_price.num),
                         competitive_advantage |->
                            _assess_competitive_advantage(position)]]]

\* the part of PricingStrategyTool._run that needs no fee calculator: the
\* market prices, the strategies and the market analysis
pricing_run(platform_data) ==
    LET market_prices == _extract_market_prices(platform_data)
        strategies == Strategies(market_prices)
    IN  [pricing_strategies |-> strategies,
         market_analysis |->
            _analyze_market_position(market_prices, strategies)]

(***************************************************************************)
(* Condition adjustment (api/src/main.py calculate_price_recommendations,  *)
(* services/marketplace_service.py _get_condition_multiplier)              *)
(* A multiplier is an integer number of hundredths.                        *)
(***************************************************************************)
\* str.lower() of the condition and category labels passed
LowerLabel(label) ==
    CASE label = "New" -> "new"
      [] label = "Like New" -> "like new"
      [] label = "Electronics" -> "electronics"
      [] OTHER -> label

\* main.py: condition_multipliers.get(condition, 0.7)
condition_multipliers(condition) ==
    CASE condition = "new" -> 100
      [] condition = "like new" -> 90
      [] condition = "very good" -> 80
      [] condition = "good" -> 70
      [] condition = "acceptable" -> 60
      [] condition = "poor" -> 40
      [] OTHER -> 70

\* main.py: category_defaults.get(category, 50), in mills
category_defaults(category) ==
    CASE category = "electronics" -> 150000
      [] category = "clothing" -> 50000
      [] category = "home" -> 75000
      [] category = "collectibles" -> 100000
      [] category = "books" -> 25000
      [] category = "toys" -> 40000
      [] OTHER -> 50000

\* the prices of one marketplace analysis: its average_price when truthy,
\* its price_range when it has one
MarketplacePrices(marketplace) ==
    (IF marketplace.average_price # 0 THEN <<marketplace.average_price>>
     ELSE <<>>)
    \o (IF marketplace.has_price_range
        THEN <<marketplace.low, marketplace.median, marketplace.high>>
        ELSE <<>>)

RECURSIVE AllMarketplacePrices(_)
AllMarketplacePrices(marketplace_data) ==
    IF marketplace_data = <<>> THEN <<>>
    ELSE MarketplacePrices(Head(marketplace_data))
         \o AllMarketplacePrices(Tail(marketplace_data))

\* main.py calculate_price_recommendations.  google_shopping_data:
\* [has_price_range, min, average, max]; product_info: [category,
\* condition].  condition_adjustment is the multiplier, its text left out.
calculate_price_recommendations(google_shopping_data, marketplace_data, product_info) ==
    LET google_prices ==
            IF google_shopping_data.has_price_range
               /\ google_shopping_data.average > 0
            THEN <<google_shopping_data.min, google_shopping_data.average,
                   google_shopping_data.max>>
            ELSE <<>>
        found == google_prices \o AllMarketplacePrices(marketplace_data)
        base_price == category_defaults(LowerLabel(product_info.category))
        prices == IF found = <<>>
                  THEN <<(base_price * 7) \div 10, base_price,
                         (base_price * 13) \div 10>>
                  ELSE found
        multiplier == condition_multipliers(LowerLabel(product_info.condition))
    IN  [price_range |->
            [low |-> Round2(Min(prices) * multiplier, 100),
             high |-> Round2(Max(prices) * multiplier, 100),
             average |-> Round2(Sum(prices) * multiplier, Len(prices) * 100)],
         recommended_price |->
            Round2(Sum(prices) * multiplier, Len(prices) * 100),
         condition_adjustment |-> multiplier,
         data_sources |-> Len(prices)]

\* MarketplaceService._get_condition_multiplier
_get_condition_multiplier(condition) ==
    LET c == LowerLabel(condition)
    IN  CASE c = "new" -> 100
          [] c = "like_new" -> 85
          [] c = "excellent" -> 75
          [] c = "good" -> 65
          [] c = "fair" -> 50
          [] c = "poor" -> 35
          [] OTHER -> 65

\* most platforms with researched price statistics
MaxResearched == 2

\* price statistics of a researched platform, in mills: none, averages
\* that are 0, and market prices between $10 and $50
PriceStatistics ==
    {[has_price_statistics |-> FALSE, minimum |-> 0, average |-> 0,
      maximum |-> 0],
     [has_price_statistics |-> TRUE, minimum |-> 0, average |-> 0,
      maximum |-> 0],
     [has_price_statistics |-> TRUE, minimum |-> 10000, average |-> 20000,
      maximum |-> 30000],
     [has_price_statistics |-> TRUE, minimum |-> 0, average |-> 40000,
      maximum |-> 50000],
     [has_price_statistics |-> TRUE, minimum |-> 20000, average |-> 20000,
      maximum |-> 40000]}

\* market price lists with median $20, and none
ProbeMarkets == {<<>>, <<20000>>, <<10000, 30000>>}

\* strategy prices around the band edges of a $20 median, and no price
ProbePrices ==
    {0, 15980, 16000, 18980, 19000, 20980, 21000, 23980, 24000}

ProbeStrategies ==
    {[competitive |-> [price |-> p], quick_sale |-> [price |-> q],
      premium |-> [price |-> 0], auction_start |-> [price |-> 0]] :
        p \in ProbePrices, q \in {0, 16000}}

\* condition labels: those of the multiplier tables, of ProductCondition,
\* and capitalised ones
ConditionLabels ==
    {"new", "like new", "like_new", "very good", "very_good", "excellent",
     "good", "acceptable", "fair", "poor", "New", "Like New"}

\* price_range of the Google Shopping insights: absent, all 0, $10..$30
GoogleShoppingData ==
    {[has_price_range |-> FALSE, min |-> 0, average |-> 0, max |-> 0],
     [has_price_range |-> TRUE, min |-> 0, average |-> 0, max |-> 0],
     [has_price_range |-> TRUE, min |-> 10000, average |-> 20000,
      max |-> 30000]}

\* a marketplace analysis: without prices, or with an average price and a
\* price range
MarketplaceAnalyses ==
    {[average_price |-> 0, has_price_range |-> FALSE, low |-> 0,
      median |-> 0, high |-> 0],
     [average_price |-> 25000, has_price_range |-> TRUE, low |-> 10000,
      median |-> 30000, high |-> 40000]}

ProductInfos ==
    [category : {"electronics", "Electronics", "books", "other"},
     condition : ConditionLabels]

PricingOps ==
    {"analyze_platform", "pricing_run", "analyze_market_position",
     "calculate_price_recommendations", "get_condition_multiplier"}

PricingCallsOf(o) ==
    CASE o = "analyze_platform" ->
            [platform : ScoredPlatforms,
             product_data : [condition : AllConditions, category : Categories],
             platform_data : MarketActivity,
             profit_margin : ProfitMargins]
      [] o = "pricing_run" ->
            [platform_data : SeqsUpTo(PriceStatistics, MaxResearched)]
      [] o = "analyze_market_position" ->
            [market_prices : ProbeMarkets, strategies : ProbeStrategies]
      [] o = "calculate_price_recommendations" ->
            [google_shopping_data : GoogleShoppingData,
             marketplace_data : SeqsUpTo(MarketplaceAnalyses, 1),
             product_info : ProductInfos]
      [] o = "get_condition_multiplier" -> [condition : ConditionLabels]

(***************************************************************************)
(* The pricing and scoring tools: one call of one tool                     *)
(***************************************************************************)
InitPricing ==
    /\ fee_structure = InitialFeeStructure
    /\ op \in PricingOps
    /\ args \in PricingCallsOf(op)
    /\ pc = "call"
    /\ result = NoResult
    /\ cache = EmptyCache

PricingRun ==
    /\ pc = "call" /\ op = "pricing_run"
    /\ result' = Return(pricing_run(args.platform_data))
    /\ pc' = "done"
    /\ UNCHANGED <<fee_structure, op, args, cache>>

AnalyzeMarketPosition ==
    /\ pc = "call" /\ op = "analyze_market_position"
    /\ result' = Return(_analyze_market_position(args.market_prices,
                                                 args.strategies))
    /\ pc' = "done"
    /\ UNCHANGED <<fee_structure, op, args, cache>>

CalculatePriceRecommendations ==
    /\ pc = "call" /\ op = "calculate_price_recommendations"
    /\ result' = Return(calculate_price_recommendations(
                            args.google_shopping_data, args.marketplace_data,
                            args.product_info))
    /\ pc' = "done"
    /\ UNCHANGED <<fee_structure, op, args, cache>>

GetConditionMultiplier ==
    /\ pc = "call" /\ op = "get_condition_multiplier"
    /\ result' = Return(_get_condition_multiplier(args.condition))
    /\ pc' = "done"
    /\ UNCHANGED <<fee_structure, op, args, cache>>

NextPricing ==
    \/ AnalyzePlatform
    \/ PricingRun
    \/ AnalyzeMarketPosition
    \/ CalculatePriceRecommendations
    \/ GetConditionMultiplier

SpecPricing == InitPricing /\ [][NextPricing]_vars

(***************************************************************************)
(* Properties of the summaries, strategies, positions and scores           *)
(***************************************************************************)
\* C21: when no price is positive, the summary of the prices has min, max,
\* mean and median all 0, in the Google Shopping insights and in the eBay
\* research.
C21_SparseAllZero ==
    /\ (Done("get_price_insights") /\ ~SomePositive(args.prices))
       => LET range == result.value.price_range
          IN  /\ {"min", "max", "average", "median"} \subseteq DOMAIN range
              /\ range.min = 0 /\ range.max = 0
              /\ range.average = 0 /\ range.median = 0
    /\ (Done("research_ebay") /\ ~SomePositive(ItemPrices))
       => LET stats == result.value.price_statistics
          IN  /\ stats.minimum = 0 /\ stats.maximum = 0
              /\ stats.average.num = 0 /\ stats.median = 0

MarketPricesOfRun == _extract_market_prices(args.platform_data)

\* the market prices $10, $20, $30, $40, $50
Scenario3 ==
    /\ Done("pricing_run")
    /\ MarketPricesOfRun = <<10000, 20000, 30000, 40000, 50000>>

\* C22: for market prices with median m (statistics.median) the strategies
\* are quick_sale m x 0.78 (confidence 0.9), competitive m x 0.95 (0.8),
\* premium m x 1.12 (0.6), auction_start m x 0.65 (0.7) with
\* expected_final_price m x 0.95, each rounded to cents; $10..$50 give
\* quick_sale 23.40; for no market price every strategy has price 0 and
\* the label no_market_data.
C22_StrategyMultipliers ==
    Done("pricing_run")
    => LET s == result.value.pricing_strategies
           m == statistics_median(MarketPricesOfRun)
       IN  /\ MarketPricesOfRun = <<>>
              => \A name \in DOMAIN s :
                   s[name].price = 0 /\ s[name].strategy = "no_market_data"
           /\ MarketPricesOfRun # <<>>
              => /\ s.quick_sale.price = Round2(m.num * 78, m.den * 100)
                 /\ s.quick_sale.confidence = 9
                 /\ s.competitive.price = Round2(m.num * 95, m.den * 100)
                 /\ s.competitive.confidence = 8
                 /\ s.premium.price = Round2(m.num * 112, m.den * 100)
                 /\ s.premium.confidence = 6
                 /\ s.auction_start.price = Round2(m.num * 65, m.den * 100)
                 /\ s.auction_start.confidence = 7
                 /\ s.auction_start.expected_final_price
                      = Round2(m.num * 95, m.den * 100)
                 /\ \A name \in DOMAIN s : s[name].strategy = name
           /\ Scenario3
              => /\ m = [num |-> 30000, den |-> 1]
                 /\ s.quick_sale.price = 23400

C22_Witness ==
    /\ Scenario3
    /\ result.value.pricing_strategies.quick_sale.price = 23400

\* C23: a priced strategy is classified by ratio = price / median: below
\* 0.8 well_below_market, from 0.8 below 0.95 below_market, from 0.95 below
\* 1.05 at_market, from 1.05 below 1.2 above_market, from 1.2
\* well_above_market; without market prices the result is
\* insufficient_market_data, and the median divided by is positive.
C23_PositionBands ==
    Done("analyze_market_position")
    => /\ args.market_prices = <<>>
          => result.value.analysis = "insufficient_market_data"
       /\ args.market_prices # <<>>
          => LET m == statistics_median(args.market_prices)
                 positions == result.value.positions
             IN  /\ m.num > 0
                 /\ DOMAIN positions
                      = {name \in DOMAIN args.strategies :
                            args.strategies[name].price > 0}
                 /\ \A name \in DOMAIN positions :
                      LET p == args.strategies[name].price * m.den
                          label == positions[name].market_position
                      IN  /\ label = "well_below_market"
                                <=> 100 * p < 80 * m.num
                          /\ label = "below_market"
                                <=> (80 * m.num <= 100 * p
                                       /\ 100 * p < 95 * m.num)
                          /\ label = "at_market"
                                <=> (95 * m.num <= 100 * p
                                       /\ 100 * p < 105 * m.num)
                          /\ label = "above_market"
                                <=> (105 * m.num <= 100 * p
                                       /\ 100 * p < 120 * m.num)
                          /\ label = "well_above_market"
                                <=> 120 * m.num <= 100 * p

\* a price at exactly 0.8 of the median, classified below_market
C23_Witness ==
    /\ Done("analyze_market_position")
    /\ args.market_prices = <<10000, 30000>>
    /\ args.strategies.competitive.price = 16000
    /\ result.value.positions["competitive"].market_position = "below_market"

\* the multipliers of the condition adjustment, in hundredths
ClaimedMultipliers ==
    [new |-> 100, like_new |-> 90, very_good |-> 80, good |-> 70,
     acceptable |-> 60, poor |-> 40]

\* the condition labels from worst to best, equal ranks for the labels of
\* one grade
ConditionRank ==
    [poor |-> 1, fair |-> 2, acceptable |-> 2, good |-> 3, very_good |-> 4,
     excellent |-> 4, like_new |-> 5, new |-> 6]

\* C24: the condition adjustment multiplies by new 1.0, like_new 0.9,
\* very_good 0.8, good 0.7, acceptable 0.6, poor 0.4, in the price
\* recommendations and in the marketplace service, and a better condition
\* never has a lower multiplier than a worse one.
C24_ConditionMultipliers ==
    /\ (Done("calculate_price_recommendations")
          /\ args.product_info.condition \in DOMAIN ClaimedMultipliers)
       => result.value.condition_adjustment
            = ClaimedMultipliers[args.product_info.condition]
    /\ (Done("get_condition_multiplier")
          /\ args.condition \in DOMAIN ClaimedMultipliers)
       => result.value = ClaimedMultipliers[args.condition]
    /\ \A better \in DOMAIN ConditionRank : \A worse \in DOMAIN ConditionRank :
         ConditionRank[better] > ConditionRank[worse]
         => /\ condition_multipliers(LowerLabel(better))
                 >= condition_multipliers(LowerLabel(worse))
            /\ _get_condition_multiplier(better)
                 >= _get_condition_multiplier(worse)

\* C25: the overall score of _analyze_platform is the weighted sum 0.25
\* audience_match + 0.25 category_fit + 0.20 fee_competitiveness + 0.15
\* ease_of_use + 0.15 market_presence of the detailed scores, rounded to a
\* tenth, and lies in [0, 10], as does each detailed score.
C25_WeightedScore ==
    Done("analyze_platform")
    => LET d == result.value.detailed_scores
           weighted == d.audience_match * 25 + d.category_fit * 25
                       + d.fee_competitiveness * 20 + d.ease_of_use * 15
                       + d.market_presence * 15
       IN  /\ \A name \in DOMAIN d : d[name] \in 0..100
           /\ weighted \in 0..10000
           /\ result.value.overall_score * 100 - weighted \in (-50)..50
           /\ result.value.overall_score \in 0..100

\* a busy market with most listings sold: the bonus reaches the cap of 10
C25_Witness ==
    /\ Done("analyze_platform")
    /\ args.platform_data.total_listings > 100
    /\ 2 * args.platform_data.sold_listings_count
         > args.platform_data.total_listings
    /\ result.value.detailed_scores.market_presence = 100
    /\ args.profit_margin >= 80
    /\ result.value.overall_score >= 90

\* C29: for market prices that are not empty, the market_position a
\* strategy carries in its own result is the band _analyze_market_position
\* gives the strategy's price.
C29_LabelsAgree ==
    (Done("pricing_run") /\ MarketPricesOfRun # <<>>)
    => \A name \in DOMAIN result.value.market_analysis.positions :
         result.value.pricing_strategies[name].market_position
           = result.value.market_analysis.positions[name].market_position

(***************************************************************************)
(* The background analysis and its readers (api/src/routers/analysis.py)   *)
(*                                                                         *)
(* One analysis id.  Every await of a cache operation is one step: the     *)
(* event loop may run any other coroutine between two of them.  The cache  *)
(* operations (set_analysis_status, set_analysis_result,                   *)
(* get_analysis_status, get_analysis_result) are not defined by            *)
(* services/cache_service.py; they are modelled as the write and the read  *)
(* of one Redis entry each, a write either taking effect or raising.       *)
(***************************************************************************)
NumReaders == 2

BackgroundTask == 0

Readers == 1..NumReaders

Processes == {BackgroundTask} \cup Readers

UserIds == {"", "user"}

ImageContentTypes == {"image/png", "text/plain"}

Status(status, message) == [is_none |-> FALSE, status |-> status, message |-> message]

Stored(value) == [is_none |-> FALSE, value |-> value]

\* _structure_crew_output is not a coroutine function and returns the call
\* of _format_final_output without awaiting it: the workflow's result is
\* then a coroutine object, which has no method get
CoroutineObject == [type |-> "coroutine", confidence |-> 0, error |-> FALSE]

\* _create_error_response: a dict with confidence 0.0 and the error
ErrorResponse == [type |-> "dict", confidence |-> 0, error |-> TRUE]

\* what product_analysis_crew.analyze_product_image returns: it catches
\* every exception of the workflow itself
CrewResults == {CoroutineObject, ErrorResponse}

\* the error_result of the handler of run_product_analysis
error_result == [type |-> "dict", confidence |-> 0, error |-> TRUE, status |-> "failed"]

\* result.get('confidence', 0) > 0.5 raises for a result without get
HistoryConditionRaises(value) == value.type # "dict"

TaskAt(label, value) == [at |-> label, result |-> value]

NoValue == [type |-> "none", confidence |-> 0, error |-> FALSE]

NoResponse == [status_code |-> 0]

InitTasks ==
    /\ fee_structure = InitialFeeStructure
    /\ op = [p \in Processes |->
               IF p = BackgroundTask THEN "analyze_product_image"
               ELSE "get_analysis_result"]
    /\ \E user_id \in UserIds : \E content_type \in ImageContentTypes :
         args = [p \in Processes |->
                   [user_id |-> IF p = BackgroundTask THEN user_id ELSE "",
                    content_type |-> IF p = BackgroundTask THEN content_type
                                     ELSE ""]]
    /\ pc = [p \in Processes |-> TaskAt("request", NoValue)]
    /\ result = [p \in Processes |-> NoResponse]
    /\ cache = EmptyCache

Goto(p, label) == pc' = [pc EXCEPT ![p].at = label]

\* POST /analyze: validates the image, writes the initial status and adds
\* run_product_analysis to the background tasks; any exception is a 500
AnalyzeProductImage ==
    /\ pc[BackgroundTask].at = "request"
    /\ \/ /\ args[BackgroundTask].content_type = "text/plain"
          /\ result' = [result EXCEPT ![BackgroundTask] = [status_code |-> 400]]
          /\ Goto(BackgroundTask, "rejected")
          /\ UNCHANGED cache
       \/ /\ args[BackgroundTask].content_type # "text/plain"
          /\ cache' = [cache EXCEPT !.status = Status("processing", "Analysis started")]
          /\ result' = [result EXCEPT ![BackgroundTask] =
                          [status_code |-> 200, status |-> "processing"]]
          /\ Goto(BackgroundTask, "scheduled")
       \/ /\ args[BackgroundTask].content_type # "text/plain"
          /\ result' = [result EXCEPT ![BackgroundTask] = [status_code |-> 500]]
          /\ Goto(BackgroundTask, "rejected")
          /\ UNCHANGED cache
    /\ UNCHANGED <<fee_structure, op, args>>

\* run_product_analysis: set_analysis_status(id, "processing", ...)
SetProcessing ==
    /\ pc[BackgroundTask].at = "scheduled"
    /\ \/ /\ cache' = [cache EXCEPT !.status =
                         Status("processing", "Running AI analysis workflow...")]
          /\ Goto(BackgroundTask, "analyze")
       \/ /\ Goto(BackgroundTask, "except")
          /\ UNCHANGED cache
    /\ UNCHANGED <<fee_structure, op, args, result>>

\* result = await product_analysis_crew.analyze_product_image(...)
RunCrew ==
    /\ pc[BackgroundTask].at = "analyze"
    /\ \E value \in CrewResults :
         pc' = [pc EXCEPT ![BackgroundTask] = TaskAt("store_result", value)]
    /\ UNCHANGED <<fee_structure, op, args, result, cache>>

\* set_analysis_result(id, result)
StoreResult ==
    /\ pc[BackgroundTask].at = "store_result"
    /\ \/ /\ cache' = [cache EXCEPT !.result = Stored(pc[BackgroundTask].result)]
          /\ Goto(BackgroundTask, "set_completed")
       \/ /\ Goto(BackgroundTask, "except")
          /\ UNCHANGED cache
    /\ UNCHANGED <<fee_structure, op, args, result>>

\* set_analysis_status(id, "completed", ...)
SetCompleted ==
    /\ pc[BackgroundTask].at = "set_completed"
    /\ \/ /\ cache' = [cache EXCEPT !.status =
                         Status("completed", "Analysis completed successfully")]
          /\ Goto(BackgroundTask, "history")
       \/ /\ Goto(BackgroundTask, "except")
          /\ UNCHANGED cache
    /\ UNCHANGED <<fee_structure, op, args, result>>

\* if user_id and result.get('confidence', 0) > 0.5: the condition is
\* evaluated outside the inner try, store_user_analysis_history inside it
StoreHistory ==
    /\ pc[BackgroundTask].at = "history"
    /\ IF args[BackgroundTask].user_id # ""
          /\ HistoryConditionRaises(pc[BackgroundTask].result)
       THEN Goto(BackgroundTask, "except")
       ELSE Goto(BackgroundTask, "done")
    /\ UNCHANGED <<fee_structure, op, args, result, cache>>

\* except Exception: set_analysis_result(id, error_result)
StoreErrorResult ==
    /\ pc[BackgroundTask].at = "except"
    /\ \/ /\ cache' = [cache EXCEPT !.result = Stored(error_result)]
          /\ Goto(BackgroundTask, "set_failed")
       \/ /\ Goto(BackgroundTask, "raised")
          /\ UNCHANGED cache
    /\ UNCHANGED <<fee_structure, op, args, result>>

\* except Exception: set_analysis_status(id, "failed", ...)
SetFailed ==
    /\ pc[BackgroundTask].at = "set_failed"
    /\ \/ /\ cache' = [cache EXCEPT !.status = Status("failed", "Analysis failed")]
          /\ Goto(BackgroundTask, "done")
       \/ /\ Goto(BackgroundTask, "raised")
          /\ UNCHANGED cache
    /\ UNCHANGED <<fee_structure, op, args, result>>

\* get_analysis_result: status = await get_analysis_status(id), and the
\* answers that need no result
ReadStatus(r) ==
    /\ pc[r].at = "request"
    /\ IF cache.status.is_none
       THEN /\ result' = [result EXCEPT ![r] = [status_code |-> 404]]
            /\ Goto(r, "done")
       ELSE IF cache.status.status # "completed"
       THEN /\ result' = [result EXCEPT ![r] =
                            [status_code |-> 200,
                             status |-> cache.status.status,
                             message |-> cache.status.message]]
            /\ Goto(r, "done")
       ELSE /\ Goto(r, "get_result")
            /\ UNCHANGED result
    /\ UNCHANGED <<fee_structure, op, args, cache>>

\* get_analysis_result: result = await get_analysis_result(id) after the
\* status "completed" was read
ReadResult(r) ==
    /\ pc[r].at = "get_result"
    /\ IF cache.result.is_none
       THEN result' = [result EXCEPT ![r] = [status_code |-> 404]]
       ELSE result' = [result EXCEPT ![r] =
                         [status_code |-> 200, status |-> "completed",
                          result |-> cache.result.value]]
    /\ Goto(r, "done")
    /\ UNCHANGED <<fee_structure, op, args, cache>>

NextTasks ==
    \/ AnalyzeProductImage
    \/ SetProcessing
    \/ RunCrew
    \/ StoreResult
    \/ SetCompleted
    \/ StoreHistory
    \/ StoreErrorResult
    \/ SetFailed
    \/ \E r \in Readers : ReadStatus(r)
    \/ \E r \in Readers : ReadResult(r)

SpecTasks == InitTasks /\ [][NextTasks]_vars

\* the status stored for the analysis id, "" while none is
StoredStatus == IF cache.status.is_none THEN "" ELSE cache.status.status

\* the moves of the status the background task may make
StatusMoves ==
    \/ StoredStatus' = StoredStatus
    \/ StoredStatus = "" /\ StoredStatus' = "processing"
    \/ StoredStatus = "processing" /\ StoredStatus' \in {"completed", "failed"}

\* a reader that read "completed" finds a stored result, and an answer
\* with a result payload is an answer with the status "completed"
ReadersServed ==
    /\ StoredStatus = "completed" => ~cache.result.is_none
    /\ \A r \in Readers :
         /\ pc[r].at = "get_result" => ~cache.result.is_none
         /\ (pc[r].at = "done" /\ "result" \in DOMAIN result[r])
            => result[r].status = "completed"

====
